---- MODULE Spec2Model ----
\* ComPlexionist: the file-based TTL cache (src/complexionist/cache.py)
\* modelled as a state machine over the files of the cache directory, and the
\* movie gap scan (MovieGapFinder.find_gaps and the movies command) modelled
\* as a state machine over the position of one scan.
\*
\* Time is counted in whole hours (ttl_hours is an integer number of hours);
\* a timestamp is the hour count since the start of the run.
EXTENDS Integers, Sequences, FiniteSets, TLC

\* ---------------------------------------------------------------- bounds
MaxClock == 2
MaxTtl == 1
\* The most movies a collection record counts.
MaxCount == 10
\* The most parts a collection read on its own has.
MaxParts == 3
\* The largest max_retries a function is decorated with.
MaxRetries == 2
\* The longest time formatted, in seconds.
MaxSeconds == 3730
\* The estimator: min_samples of the calculators made, the samples one
\* phase accumulates, and the length of a run in seconds.
MaxMinSamples == 2
MaxSamples == 2
MaxMono == 3
\* The length of a run with pauses, in seconds.
MaxPauseMono == 34
\* The most movies a scanned library holds.
MaxLib == 2

\* ---------------------------------------------------------------- values
\* Optional values: None is Python's None, Some(x) a present value.
None == << >>
Some(x) == << x >>

\* Payload atoms: a JSON-native string, a datetime.date (not JSON-native),
\* and a tuple used as a dict key (which json cannot encode at all).
StrAtom(s) == [t |-> "str", v |-> s]
DateAtom(s) == [t |-> "date", v |-> s]
TupleKeyAtom == [t |-> "tuplekey", v |-> "(1, 2)"]

\* The payloads handed to set: sequences of atoms.
NativePayloads == { << StrAtom("a") >>, << StrAtom("b") >> }
Payloads == NativePayloads \cup { << DateAtom("2020-01-01") >>, << TupleKeyAtom >> }

\* json.dump(..., default=repr): str() replaced by repr().
JsonDefaultRepr(a) == IF a.t = "str" THEN a ELSE StrAtom("datetime.date(2020, 1, 1)")

\* json.dump(..., default=str): a value json cannot encode is replaced by
\* str(value); a JSON-native value is written as it is.
JsonDefault(a) == IF a.t = "str" THEN a ELSE StrAtom(a.v)

\* json.dump raises TypeError on a dict key that is not str/int/float/bool/None.
Serializable(p) == \A i \in DOMAIN p : p[i].t # "tuplekey"

\* What json.load gives back for the text json.dump wrote for payload p.
JsonImage(p) == [i \in DOMAIN p |-> JsonDefault(p[i])]

\* The (namespace, category, key) triples of the cache layout.
Namespaces == {"tmdb", "tvdb"}
Triples == { <<"tmdb", "movies", "1">>, <<"tmdb", "collections", "1">>, <<"tvdb", "episodes", "1">> }
\* A second key of the category of the first triple.
Sibling == <<"tmdb", "movies", "2">>
AllTriples == Triples \cup {Sibling}
NoKey == <<"-", "-", "-">>

\* A path that leaves the key out: every key of a category in one file.
GetPathNoKey(k) == << k[1], k[2], "1", "json" >>

\* Cache._get_path: cache_dir / namespace / category / f"{key}.json"
GetPath(k) == << k[1], k[2], k[3], "json" >>

\* The temporary file being the entry file itself (no suffix change).
TempPathInPlace(path) == path

\* path.with_suffix(".tmp")
TempPath(path) == << path[1], path[2], path[3], "tmp" >>

\* The entry files and temporary files the triples can have.
FileNames == { << k[1], k[2], k[3], x >> : k \in AllTriples, x \in {"json", "tmp"} }
JsonFiles == { f \in FileNames : f[4] = "json" }

\* Directories beneath (and including) the cache root.
RootDir == << >>
ParentDirs(f) == { RootDir, << f[1] >>, << f[1], f[2] >> }

\* ----------------------------------------------------------- file content
\* The content of a file, as json.load and the metadata lookups see it.
\*   json: "nofile" | "bad" (not JSON, also an empty or partly written file)
\*         | "nonobj" (valid JSON that is not an object) | "obj"
\*   meta: "missing" | "nondict" | "dict"          (the _cache_meta member)
\*   exp:  "falsy" (absent, null, "" or 0) | "nonstr" (a truthy non-string)
\*         | "unparsable" | "naive" (no UTC offset) | "aware"
Content(j, m, e, at, h, d) ==
    [json |-> j, meta |-> m, exp |-> e, cached_at |-> at, ttl_hours |-> h,
     expires_at |-> at + h, data |-> d]

NoFile == Content("nofile", "missing", "falsy", 0, 0, None)
BadJson == Content("bad", "missing", "falsy", 0, 0, None)

\* The entry dict built by Cache.set (lines 176-187), after serialisation.
MakeEntry(now, ttl_hours, data) ==
    Content("obj", "dict", "aware", now, ttl_hours, Some(JsonImage(data)))

\* Files that are not what Cache.set writes (damaged or foreign files).
Malformed ==
    { BadJson,
      Content("nonobj", "missing", "falsy", 0, 0, None),
      Content("obj", "missing", "falsy", 0, 0, Some(<< StrAtom("a") >>)),
      Content("obj", "nondict", "falsy", 0, 0, Some(<< StrAtom("a") >>)),
      Content("obj", "dict", "falsy", 0, 0, None),
      Content("obj", "dict", "nonstr", 0, 0, Some(<< StrAtom("a") >>)),
      Content("obj", "dict", "unparsable", 0, 0, Some(<< StrAtom("a") >>)),
      Content("obj", "dict", "naive", 0, 0, Some(<< StrAtom("a") >>)) }

WellFormed(c) == c.json = "obj" /\ c.meta = "dict" /\ c.exp = "aware"


\* ------------------------------------------------------------------ state
VARIABLES
    enabled,    \* Cache.enabled of the Cache object in use
    fs,         \* the files beneath cache_dir: file name -> content
    dirs,       \* the directories that exist (cache_dir itself is RootDir)
    clock,      \* datetime.now(UTC), in hours
    stored,     \* per triple: what the last successful set stored, if still owed
    ret,        \* the last call: operation, triple, result, exception raised
    wr,         \* a set call in progress, step by step (idle when none is)
    rd,         \* a get call in progress, step by step (idle when none is)
    st,         \* the CacheStats the last stats call returned, if it returned
    scan,       \* MovieGapFinder.find_gaps in progress: position and findings
    events,     \* the progress callbacks of the scan so far, in order
    report,     \* the MovieGapReport find_gaps returned, if it has returned
    output,     \* the report the movies command has written out, if any
    eta,        \* the fields of the ETACalculator in use
    mono,       \* time.monotonic(), in seconds
    out,        \* the last call on the calculator or a record: name, arguments, result
    rendered    \* the last format_remaining call: when it was made and its text

vars == << enabled, fs, dirs, clock, stored, ret, wr, rd, st, scan, events, report, output,
           eta, mono, out, rendered >>

Result(op, k, value, flag, count, raised) ==
    [op |-> op, key |-> k, value |-> value, flag |-> flag, count |-> count, raised |-> raised]

NoCall(op) == Result(op, NoKey, None, FALSE, 0, "none")

Exists(f) == fs[f].json # "nofile"

\* --------------------------------------------------------------- Cache.get
\* datetime.now(UTC) >= expires_at: the expiry test with >= in place of >.
ExpiredAtOrAfter(now, expires_at) == now >= expires_at

\* datetime.now(UTC) > expires_at
Expired(now, expires_at) == now > expires_at

Outcome(value, unlink, raised) == [value |-> value, unlink |-> unlink, raised |-> raised]
Miss == Outcome(None, FALSE, "none")

\* The try block of Cache.get on a file that exists, with its except clause.
LoadOutcome(c, now) ==
    CASE c.json = "bad" -> Outcome(None, TRUE, "none")
      [] c.json = "nonobj" -> Outcome(None, FALSE, "AttributeError")
      [] c.meta = "nondict" -> Outcome(None, FALSE, "AttributeError")
      [] c.meta = "missing" -> Outcome(c.data, FALSE, "none")
      [] c.exp = "falsy" -> Outcome(c.data, FALSE, "none")
      [] c.exp = "nonstr" -> Outcome(None, FALSE, "TypeError")
      [] c.exp = "unparsable" -> Outcome(None, TRUE, "none")
      [] c.exp = "naive" -> Outcome(None, FALSE, "TypeError")
      [] OTHER -> IF Expired(now, c.expires_at)
                  THEN Outcome(None, TRUE, "none")
                  ELSE Outcome(c.data, FALSE, "none")

\* Cache.get without its `if not self.enabled` guard.
GetOutcomeAlwaysEnabled(en, c, now) ==
    IF c.json = "nofile" THEN Miss ELSE LoadOutcome(c, now)

\* Cache.get as a function of the flag, the file's content and the time.
GetOutcome(en, c, now) ==
    IF ~en THEN Miss
    ELSE IF c.json = "nofile" THEN Miss
    ELSE LoadOutcome(c, now)

Get(k) ==
    LET o == GetOutcome(enabled, fs[GetPath(k)], clock) IN
    /\ fs' = IF o.unlink THEN [fs EXCEPT ![GetPath(k)] = NoFile] ELSE fs
    /\ ret' = Result("get", k, o.value, FALSE, 0, o.raised)
    /\ UNCHANGED << eta, mono, out, rendered, st, scan, events, report, output, wr, rd, enabled, dirs, clock, stored >>

\* --------------------------------------------------------------- Cache.set
\* What the environment does to one set call: nothing, or an OSError at
\* open(temp_path, "w"), at a write of json.dump, or at temp_path.replace.
Failures == {"none", "open", "write", "replace"}

NotStored == [has |-> FALSE, payload |-> << >>, at |-> 0, ttl |-> 0]
Stored(p, at, h) == [has |-> TRUE, payload |-> p, at |-> at, ttl |-> h]

\* temp_path.replace(path)
Replace(files, tmp, path) ==
    IF tmp = path THEN files
    ELSE [files EXCEPT ![path] = files[tmp], ![tmp] = NoFile]

\* temp_path.unlink(missing_ok=True)
Unlink(files, f) == [files EXCEPT ![f] = NoFile]

\* Lines 189-198 of Cache.set with path.unlink in the except clause in place
\* of temp_path.unlink.
WriteOutcomeUnlinkEntry(files, path, entry, serializable, fail) ==
    LET tmp == TempPath(path)
        opened == [files EXCEPT ![tmp] = BadJson]
        dumped == [files EXCEPT ![tmp] = entry]
    IN  CASE fail = "open" -> [files |-> Unlink(files, path), raised |-> "OSError"]
          [] fail = "write" -> [files |-> Unlink(opened, path), raised |-> "OSError"]
          [] ~serializable -> [files |-> opened, raised |-> "TypeError"]
          [] fail = "replace" -> [files |-> Unlink(dumped, path), raised |-> "OSError"]
          [] OTHER -> [files |-> Replace(dumped, tmp, path), raised |-> "none"]

\* Lines 189-198 of Cache.set: the files after the write, and the exception.
WriteOutcome(files, path, entry, serializable, fail) ==
    LET tmp == TempPath(path)
        opened == [files EXCEPT ![tmp] = BadJson]
        dumped == [files EXCEPT ![tmp] = entry]
    IN  CASE fail = "open" -> [files |-> Unlink(files, tmp), raised |-> "OSError"]
          [] fail = "write" -> [files |-> Unlink(opened, tmp), raised |-> "OSError"]
          [] ~serializable -> [files |-> opened, raised |-> "TypeError"]
          [] fail = "replace" -> [files |-> Unlink(dumped, tmp), raised |-> "OSError"]
          [] OTHER -> [files |-> Replace(dumped, tmp, path), raised |-> "none"]

Set(k, data, ttl_hours, fail) ==
    IF ~enabled
    THEN /\ ret' = Result("set", k, None, FALSE, 0, "none")
         /\ stored' = [stored EXCEPT ![k] = NotStored]
         /\ UNCHANGED << eta, mono, out, rendered, st, scan, events, report, output, wr, rd, enabled, fs, dirs, clock >>
    ELSE LET path == GetPath(k)
             w == WriteOutcome(fs, path, MakeEntry(clock, ttl_hours, data),
                               Serializable(data), fail)
         IN  /\ dirs' = dirs \cup ParentDirs(path)
             /\ fs' = w.files
             /\ ret' = Result("set", k, None, FALSE, 0, w.raised)
             /\ stored' = [stored EXCEPT ![k] =
                              IF w.raised = "none" THEN Stored(data, clock, ttl_hours)
                              ELSE NotStored]
             /\ UNCHANGED << eta, mono, out, rendered, st, scan, events, report, output, wr, rd, enabled, clock >>

\* ------------------------------------------------------------ Cache.delete
\* delete answering True whether or not the file was there.
DeleteAlwaysTrue(k) ==
    LET path == GetPath(k) IN
    /\ fs' = IF Exists(path) THEN Unlink(fs, path) ELSE fs
    /\ ret' = Result("delete", k, None, TRUE, 0, "none")
    /\ stored' = [stored EXCEPT ![k] = NotStored]
    /\ UNCHANGED << eta, mono, out, rendered, st, scan, events, report, output, wr, rd, enabled, dirs, clock >>

\* path.exists(), path.unlink(), return True; return False otherwise.
Delete(k) ==
    LET path == GetPath(k) IN
    /\ fs' = IF Exists(path) THEN Unlink(fs, path) ELSE fs
    /\ ret' = Result("delete", k, None, Exists(path), 0, "none")
    /\ stored' = [stored EXCEPT ![k] = NotStored]
    /\ UNCHANGED << eta, mono, out, rendered, st, scan, events, report, output, wr, rd, enabled, dirs, clock >>

\* ------------------------------------------------- Cache._cleanup_empty_dirs
\* The files directly inside a category directory.
FilesIn(files, d) == { f \in FileNames : << f[1], f[2] >> = d /\ files[f].json # "nofile" }

\* One level only: the empty category directories go, their namespace
\* directories stay.
CleanupCategoryDirs(files, ds) ==
    IF RootDir \notin ds THEN ds
    ELSE ds \ { d \in ds : Len(d) = 2 /\ FilesIn(files, d) = {} }

\* Bottom-up: an empty category directory goes, then a namespace directory
\* left without category directories. cache_dir itself is never removed.
CleanupEmptyDirs(files, ds) ==
    IF RootDir \notin ds THEN ds
    ELSE LET emptyCats == { d \in ds : Len(d) = 2 /\ FilesIn(files, d) = {} }
             afterCats == ds \ emptyCats
             emptyNs == { d \in afterCats : Len(d) = 1 /\
                            ~ \E c \in afterCats : Len(c) = 2 /\ c[1] = d[1] }
         IN  afterCats \ emptyNs

\* ------------------------------------------------------------- Cache.clear
\* "*" stands for namespace=None (clear everything).
ClearArgs == Namespaces \cup {"*"}

\* cache_dir.rglob("*.json") whatever the namespace given.
ClearTargetsAll(files, ns) == { f \in JsonFiles : files[f].json # "nofile" }

\* The files clear unlinks: ns_dir.rglob("*.json") or cache_dir.rglob("*.json").
ClearTargets(files, ns) ==
    { f \in JsonFiles : files[f].json # "nofile" /\ (ns = "*" \/ f[1] = ns) }

UnlinkAll(files, F) == [f \in FileNames |-> IF f \in F THEN NoFile ELSE files[f]]

Clear(ns) ==
    IF RootDir \notin dirs
    THEN /\ ret' = Result("clear", << ns, "-", "-" >>, None, FALSE, 0, "none")
         /\ stored' = [k \in AllTriples |-> IF ns = "*" \/ k[1] = ns THEN NotStored ELSE stored[k]]
         /\ UNCHANGED << eta, mono, out, rendered, st, scan, events, report, output, wr, rd, enabled, fs, dirs, clock >>
    ELSE LET T == ClearTargets(fs, ns) IN
         /\ fs' = UnlinkAll(fs, T)
         /\ dirs' = CleanupEmptyDirs(fs', dirs)
         /\ ret' = Result("clear", << ns, "-", "-" >>, None, FALSE, Cardinality(T), "none")
         /\ stored' = [k \in AllTriples |-> IF ns = "*" \/ k[1] = ns THEN NotStored ELSE stored[k]]
         /\ UNCHANGED << eta, mono, out, rendered, st, scan, events, report, output, wr, rd, enabled, clock >>

\* --------------------------------------------------- Cache.cleanup_expired
\* The loop body of cleanup_expired on one file: what it does with it.
SweepOutcome(c, now) ==
    CASE c.json = "bad" -> "delete"
      [] c.json = "nonobj" -> "AttributeError"
      [] c.meta = "nondict" -> "AttributeError"
      [] c.meta = "missing" -> "keep"
      [] c.exp = "falsy" -> "keep"
      [] c.exp = "nonstr" -> "TypeError"
      [] c.exp = "unparsable" -> "delete"
      [] c.exp = "naive" -> "TypeError"
      [] OTHER -> IF now > c.expires_at THEN "delete" ELSE "keep"

\* cleanup_expired visits the files in the order rglob yields them, which the
\* file system decides. An exception the except clause does not name ends the
\* call at the first file that raises it, after the files visited before it.
CleanupExpired ==
    IF RootDir \notin dirs
    THEN /\ ret' = Result("cleanup_expired", NoKey, None, FALSE, 0, "none")
         /\ UNCHANGED << eta, mono, out, rendered, st, scan, events, report, output, wr, rd, enabled, fs, dirs, clock, stored >>
    ELSE LET J == { f \in JsonFiles : Exists(f) }
             R == { f \in J : SweepOutcome(fs[f], clock) \in {"AttributeError", "TypeError"} }
             D(S) == { f \in S : SweepOutcome(fs[f], clock) = "delete" }
         IN  /\ \/ /\ R = {}
                   /\ fs' = UnlinkAll(fs, D(J))
                   /\ dirs' = CleanupEmptyDirs(fs', dirs)
                   /\ ret' = Result("cleanup_expired", NoKey, None, FALSE, Cardinality(D(J)), "none")
                \/ \E r \in R : \E S \in SUBSET (J \ R) :
                   /\ fs' = UnlinkAll(fs, D(S))
                   /\ dirs' = dirs
                   /\ ret' = Result("cleanup_expired", NoKey, None, FALSE, 0, SweepOutcome(fs[r], clock))
             /\ UNCHANGED << eta, mono, out, rendered, st, scan, events, report, output, wr, rd, enabled, clock, stored >>

\* -------------------------------------------------------------- Cache.stats
\* The try block of stats on one file (lines 306-317). The metadata of a file
\* that Cache.set did not write has its two timestamps damaged alike, so exp
\* also tells what cached_at is. "naive" and "aware" are timestamps that
\* datetime.fromisoformat parsed; "skip" leaves oldest and newest alone.
StatsOutcome(c) ==
    CASE c.json = "bad" -> "skip"
      [] c.json = "nonobj" -> "AttributeError"
      [] c.meta = "nondict" -> "AttributeError"
      [] c.meta = "missing" -> "skip"
      [] c.exp = "falsy" -> "skip"
      [] c.exp = "nonstr" -> "TypeError"
      [] c.exp = "unparsable" -> "skip"
      [] OTHER -> c.exp

MinOf(S) == CHOOSE x \in S : \A y \in S : x <= y
MaxOf(S) == CHOOSE x \in S : \A y \in S : x >= y

\* The CacheStats object (total_size_bytes left out: file sizes are not modelled).
CacheStats(total, movies, collections, episodes, oldest, newest) ==
    [total_entries |-> total, tmdb_movies |-> movies, tmdb_collections |-> collections,
     tvdb_episodes |-> episodes, oldest_entry |-> oldest, newest_entry |-> newest]

\* The files of one namespace and category among F.
InCategory(F, ns, cat) == { f \in F : f[1] = ns /\ f[2] = cat }

\* stats visits the files in the order rglob yields them. A file whose try
\* block raises what the except clause does not name ends the call, and so does
\* the comparison of an offset-naive with an offset-aware timestamp, whichever
\* comes first in that order.
Stats ==
    /\ IF RootDir \notin dirs
       THEN /\ st' = Some(CacheStats(0, 0, 0, 0, None, None))
            /\ ret' = Result("stats", NoKey, None, FALSE, 0, "none")
       ELSE LET J == { f \in JsonFiles : Exists(f) }
                kinds == { StatsOutcome(fs[f]) : f \in J }
                raises == (kinds \cap {"AttributeError", "TypeError"})
                          \cup (IF {"naive", "aware"} \subseteq kinds THEN {"TypeError"} ELSE {})
                times == { fs[f].cached_at : f \in { g \in J : StatsOutcome(fs[g]) \in {"naive", "aware"} } }
            IN  IF raises = {}
                THEN /\ st' = Some(CacheStats(Cardinality(J),
                                       Cardinality(InCategory(J, "tmdb", "movies")),
                                       Cardinality(InCategory(J, "tmdb", "collections")),
                                       Cardinality(InCategory(J, "tvdb", "episodes")),
                                       IF times = {} THEN None ELSE Some(MinOf(times)),
                                       IF times = {} THEN None ELSE Some(MaxOf(times))))
                     /\ ret' = Result("stats", NoKey, None, FALSE, Cardinality(J), "none")
                ELSE /\ st' = None
                     /\ \E x \in raises : ret' = Result("stats", NoKey, None, FALSE, 0, x)
    /\ UNCHANGED << eta, mono, out, rendered, scan, events, report, output, wr, rd, enabled, fs, dirs, clock, stored >>

\* ------------------------------------------------------------ environment
\* A file of the cache directory damaged or written by something other than
\* Cache.set (the case the except clauses of get and cleanup_expired are for).
ExternalWrite(k, c) ==
    /\ fs' = [fs EXCEPT ![GetPath(k)] = c]
    /\ dirs' = dirs \cup ParentDirs(GetPath(k))
    /\ stored' = [stored EXCEPT ![k] = NotStored]
    /\ ret' = NoCall("external")
    /\ UNCHANGED << eta, mono, out, rendered, st, scan, events, report, output, wr, rd, enabled, clock >>

\* Time passes between calls.
Tick ==
    /\ clock < MaxClock
    /\ clock' = clock + 1
    /\ ret' = NoCall("tick")
    /\ UNCHANGED << eta, mono, out, rendered, st, scan, events, report, output, wr, rd, enabled, fs, dirs, stored >>

\* Cache.__init__ on the same cache_dir, with the enabled flag given.
Reopen(e) ==
    /\ enabled' = e
    /\ ret' = NoCall("init")
    /\ UNCHANGED << eta, mono, out, rendered, st, scan, events, report, output, wr, rd, fs, dirs, clock, stored >>

\* ------------------------------------------- get and set, one step at a time
\* The same code as Get and Set, cut at the points where another caller of the
\* cache directory can run in between: each file-system call is one step.
\* after: the last set of the key had returned when this get began, and no
\* set of the key has begun since.
Idle == [pc |-> "idle", key |-> NoKey, data |-> << >>, entry |-> NoFile, after |-> FALSE]

\* Cache.set up to the entry dict: the enabled guard, mkdir, now, the entry.
SetStart(k, data, ttl_hours) ==
    /\ wr.pc = "idle"
    /\ IF ~enabled
       THEN /\ ret' = Result("set", k, None, FALSE, 0, "none")
            /\ UNCHANGED << wr, dirs >>
       ELSE /\ wr' = [Idle EXCEPT !.pc = "open", !.key = k, !.data = data,
                                  !.entry = MakeEntry(clock, ttl_hours, data)]
            /\ dirs' = dirs \cup ParentDirs(GetPath(k))
            /\ UNCHANGED ret
    /\ stored' = [stored EXCEPT ![k] = NotStored]
    /\ rd' = [rd EXCEPT !.after = FALSE]
    /\ UNCHANGED << eta, mono, out, rendered, st, scan, events, report, output, enabled, fs, clock >>

\* open(temp_path, "w"): the file exists and is empty.
SetOpenTemp ==
    /\ wr.pc = "open"
    /\ fs' = [fs EXCEPT ![TempPath(GetPath(wr.key))] = BadJson]
    /\ wr' = [wr EXCEPT !.pc = "dump"]
    /\ UNCHANGED << eta, mono, out, rendered, st, scan, events, report, output, enabled, dirs, clock, stored, ret, rd >>

\* json.dump and the close of the file: the whole text is in the file.
SetDump ==
    /\ wr.pc = "dump"
    /\ fs' = [fs EXCEPT ![TempPath(GetPath(wr.key))] = wr.entry]
    /\ wr' = [wr EXCEPT !.pc = "replace"]
    /\ UNCHANGED << eta, mono, out, rendered, st, scan, events, report, output, enabled, dirs, clock, stored, ret, rd >>

\* temp_path.replace(path), and set returns.
SetReplace ==
    /\ wr.pc = "replace"
    /\ fs' = Replace(fs, TempPath(GetPath(wr.key)), GetPath(wr.key))
    /\ stored' = [stored EXCEPT ![wr.key] =
                     Stored(wr.data, wr.entry.cached_at, wr.entry.ttl_hours)]
    /\ ret' = Result("set", wr.key, None, FALSE, 0, "none")
    /\ wr' = Idle
    /\ UNCHANGED << eta, mono, out, rendered, st, scan, events, report, output, enabled, dirs, clock, rd >>

\* Cache.get up to path.exists().
GetStart(k) ==
    /\ rd.pc = "idle"
    /\ IF ~enabled \/ ~Exists(GetPath(k))
       THEN /\ ret' = Result("get", k, None, FALSE, 0, "none")
            /\ rd' = [Idle EXCEPT !.key = k, !.after = stored[k].has]
       ELSE /\ rd' = [Idle EXCEPT !.pc = "load", !.key = k, !.after = stored[k].has]
            /\ UNCHANGED ret
    /\ UNCHANGED << eta, mono, out, rendered, st, scan, events, report, output, enabled, fs, dirs, clock, stored, wr >>

\* open(path), json.load and the expiry test. A file that is gone by now makes
\* open raise FileNotFoundError, an OSError: the except clause is taken.
GetLoad ==
    /\ rd.pc = "load"
    /\ LET c == fs[GetPath(rd.key)]
           o == IF c.json = "nofile" THEN Outcome(None, TRUE, "none")
                ELSE LoadOutcome(c, clock)
       IN  IF o.unlink
           THEN /\ rd' = [rd EXCEPT !.pc = "unlink", !.entry = c]
                /\ UNCHANGED ret
           ELSE /\ rd' = [rd EXCEPT !.pc = "idle", !.entry = c]
                /\ ret' = Result("get", rd.key, o.value, FALSE, 0, o.raised)
    /\ UNCHANGED << eta, mono, out, rendered, st, scan, events, report, output, enabled, fs, dirs, clock, stored, wr >>

\* path.unlink(missing_ok=True), and get returns None.
GetUnlink ==
    /\ rd.pc = "unlink"
    /\ fs' = Unlink(fs, GetPath(rd.key))
    /\ ret' = Result("get", rd.key, None, FALSE, 0, "none")
    /\ rd' = [rd EXCEPT !.pc = "idle"]
    /\ UNCHANGED << eta, mono, out, rendered, st, scan, events, report, output, enabled, dirs, clock, stored, wr >>

\* ---------------------------------------------------------------- numbers
\* A Python float is written as the exact fraction n/d it stands for (d > 0).
Frac(n, d) == [n |-> n, d |-> d]
Whole(i) == Frac(i, 1)
FracLess(a, b) == a.n * b.d < b.n * a.d
FracEq(a, b) == a.n * b.d = b.n * a.d

Max(a, b) == IF a >= b THEN a ELSE b
\* int(x // 1) of a fraction: the largest integer not above it.
Floor(a) == a.n \div a.d
\* Rounding that drops the fraction instead of going to the nearest integer.
RoundDown(a) == Floor(a)

\* Python's round(x) on a float: the nearest integer, a half going to the
\* even neighbour.
Round(a) ==
    LET f == Floor(a)
        twice == 2 * (a.n - f * a.d)
    IN  IF twice < a.d THEN f
        ELSE IF twice > a.d THEN f + 1
        ELSE IF f % 2 = 0 THEN f ELSE f + 1

\* Text is the result of an f-string or a literal: "~{a}{unit}" followed, when
\* unit2 is not "", by " {b}{unit2}", then " remaining"; and the fixed phrases.
Text(kind, a, unit, b, unit2) == [kind |-> kind, a |-> a, unit |-> unit, b |-> b, unit2 |-> unit2]
Remaining1(a, unit) == Text("remaining", a, unit, 0, "")
Remaining2(a, unit, b, unit2) == Text("remaining", a, unit, b, unit2)
EmptyText == Text("", 0, "", 0, "")
CalculatingText == Text("Calculating...", 0, "", 0, "")
AlmostDoneText == Text("Almost done...", 0, "", 0, "")

\* _format_seconds
FormatSeconds(seconds) ==
    LET s0 == IF FracLess(seconds, Whole(0)) THEN Whole(0) ELSE seconds
    IN  IF FracLess(s0, Whole(10))
        THEN Remaining1(Max(1, Round(s0)), "s")
        ELSE IF FracLess(s0, Whole(60))
        THEN Remaining1(Max(5, Round(Frac(s0.n, s0.d * 5)) * 5), "s")
        ELSE IF FracLess(s0, Whole(3600))
        THEN LET mins == Floor(Frac(s0.n, s0.d * 60))
                 secs == Floor(s0) - 60 * mins
                 tens == Round(Frac(secs, 10)) * 10
                 carry == tens = 60
             IN  IF ~carry /\ tens > 0
                 THEN Remaining2(mins, "m", tens, "s")
                 ELSE Remaining1(IF carry THEN mins + 1 ELSE mins, "m")
        ELSE LET hours == Floor(Frac(s0.n, s0.d * 3600))
                 mins == Floor(Frac(s0.n, s0.d * 60)) - 60 * hours
             IN  IF mins > 0
                 THEN Remaining2(hours, "h", mins, "m")
                 ELSE Remaining1(hours, "h")

\* A call of a method that changes nothing: its name, argument and result.
Out(op, arg, value) == [op |-> op, arg |-> arg, value |-> value]
NoOut == Out("none", << >>, << >>)

\* ------------------------------------------------ the metadata of the scans
\* Dates are days; Today is the day of the scan (date.today()).
Today == 1

\* TMDBMovie: id and release_date (None when TMDB has no date).
TMDBMovie(id, release_date) == [id |-> id, release_date |-> release_date]

\* A release test that leaves out the movies released today.
IsReleasedBeforeToday(m) == m.release_date # None /\ m.release_date[1] < Today

\* TMDBMovie.is_released
IsReleased(m) == m.release_date # None /\ m.release_date[1] <= Today

\* TMDBCollection: id, name and parts, in the order TMDB lists them.
TMDBCollection(id, name, parts) == [id |-> id, name |-> name, parts |-> parts]

\* TMDBCollection.released_movies
ReleasedMovies(c) == SelectSeq(c.parts, IsReleased)

\* collection.released_movies is read.
ReadReleasedMovies(c) ==
    /\ out' = Out("released_movies", << c.parts >>, ReleasedMovies(c))
    /\ UNCHANGED << eta, mono, rendered, scan, events, report, output >>
    /\ UNCHANGED << enabled, fs, dirs, clock, stored, ret, wr, rd, st >>

\* What TMDB holds: collection 10 has a part released today and one announced
\* for tomorrow; collection 20 has three parts released before today, listed
\* in an order that is not the order of their ids.
CollectionIds == {10, 20}
Collections ==
    [c \in CollectionIds |->
        IF c = 10
        THEN TMDBCollection(10, "A", << TMDBMovie(1, Some(Today)), TMDBMovie(3, Some(Today + 1)) >>)
        ELSE TMDBCollection(20, "B", << TMDBMovie(7, Some(Today - 1)), TMDBMovie(4, Some(Today - 1)),
                                        TMDBMovie(5, Some(Today - 1)) >>)]

\* TMDBMovieDetails.collection_id of get_movie(tmdb_id): movie 6 is in no collection.
CollectionIdOf(tmdb_id) ==
    CASE tmdb_id \in {1, 3} -> Some(10)
      [] tmdb_id \in {4, 5, 7} -> Some(20)
      [] OTHER -> None

\* A Plex movie is written as its tmdb_id; NoTmdbId is a movie that has none.
\* The library can hold movie 3 ahead of its release date.
NoTmdbId == 0
TmdbIds == {1, 3, 4, 6}

\* --------------------------------------------------------------- gap models
\* CollectionGap (missing_movies as the ids of the MissingMovie objects).
CollectionGap(collection_id, collection_name, total_movies, owned_movies, missing_movies) ==
    [collection_id |-> collection_id, collection_name |-> collection_name,
     total_movies |-> total_movies, owned_movies |-> owned_movies,
     missing_movies |-> missing_movies]

\* (owned_movies / total_movies) * 100 with no test for total_movies == 0:
\* the division raises ZeroDivisionError.
CompletionPercentUnguarded(gap) ==
    IF gap.total_movies = 0 THEN [raised |-> "ZeroDivisionError", value |-> Whole(0)]
    ELSE [raised |-> "none", value |-> Frac(gap.owned_movies * 100, gap.total_movies)]

\* CollectionGap.completion_percent
CompletionPercent(gap) ==
    IF gap.total_movies = 0 THEN [raised |-> "none", value |-> Whole(100)]
    ELSE [raised |-> "none", value |-> Frac(gap.owned_movies * 100, gap.total_movies)]

\* gap.completion_percent is read on a record with the counts given.
ReadCompletionPercent(owned, total) ==
    /\ out' = Out("completion_percent", << owned, total >>,
                  CompletionPercent(CollectionGap(1, "A", total, owned, << >>)))
    /\ UNCHANGED << eta, mono, rendered, scan, events, report, output >>
    /\ UNCHANGED << enabled, fs, dirs, clock, stored, ret, wr, rd, st >>

\* CollectionGap.missing_count
MissingCount(gap) == Len(gap.missing_movies)

\* MovieGapReport
MovieGapReport(total_movies_scanned, movies_with_tmdb_id, movies_in_collections, unique_collections, collections_with_gaps) ==
    [total_movies_scanned |-> total_movies_scanned,
     movies_with_tmdb_id |-> movies_with_tmdb_id,
     movies_in_collections |-> movies_in_collections,
     unique_collections |-> unique_collections,
     collections_with_gaps |-> collections_with_gaps]

\* MovieGapReport.complete_collections
CompleteCollections(r) == r.unique_collections - Len(r.collections_with_gaps)

\* ------------------------------------------------- MovieGapFinder.find_gaps
\* The options of MovieGapFinder, as the movies command passes them.
Policy(include_future, min_collection_size, min_owned, excluded_collections) ==
    [include_future |-> include_future, min_collection_size |-> min_collection_size,
     min_owned |-> min_owned, excluded_collections |-> excluded_collections]

\* Step 2: the items with a resolvable external id, in library order.
WithTmdbIdAll(movies) == movies

WithTmdbId(movies) == SelectSeq(movies, LAMBDA m : m # NoTmdbId)

\* Step 5: the canonical list the diff looks at, future parts dropped always.
FilterPartsNeverFuture(c, include_future) == ReleasedMovies(c)

\* Step 5: the canonical list the diff looks at.
FilterParts(c, include_future) ==
    IF include_future THEN c.parts ELSE ReleasedMovies(c)

\* Step 6 with the owned items reported in place of the unowned ones.
MissingMoviesOwned(filtered, owned_ids) ==
    LET kept == SelectSeq(filtered, LAMBDA m : m.id \in owned_ids)
    IN  [i \in DOMAIN kept |-> kept[i].id]

\* Step 6: missing = canonical_filtered - owned_ids, order preserved.
MissingMovies(filtered, owned_ids) ==
    LET kept == SelectSeq(filtered, LAMBDA m : m.id \notin owned_ids)
    IN  [i \in DOMAIN kept |-> kept[i].id]

\* Step 6: owned_count = len(canonical_filtered) - len(missing).
OwnedCount(filtered, missing) == Len(filtered) - Len(missing)

\* Step 7 with a record for every group, complete ones included.
HasGapAlways(missing) == TRUE

\* Step 7: a record is emitted only if missing is non-empty.
HasGap(missing) == missing # << >>

\* The min_owned filter tested on the owned items before the diff (whatever
\* the canonical list, an owned item of the group counts).
MeetsMinOwnedBeforeDiff(owned_count, owned_ids, min_owned) ==
    Cardinality(owned_ids) >= min_owned

\* Step 7: the post-hoc min_owned filter, on the owned_count of the diff.
MeetsMinOwned(owned_count, owned_ids, min_owned) == owned_count >= min_owned

\* Steps 4-7 for one group whose canonical list was fetched: the gap record,
\* or None when the group is not reported.
FindCollectionGap(c, owned_ids, policy) ==
    IF Len(c.parts) < policy.min_collection_size THEN None
    ELSE LET filtered == FilterParts(c, policy.include_future)
             missing == MissingMovies(filtered, owned_ids)
             owned_count == OwnedCount(filtered, missing)
         IN  IF HasGap(missing) /\ MeetsMinOwned(owned_count, owned_ids, policy.min_owned)
             THEN Some(CollectionGap(c.id, c.name, Len(filtered), owned_count, missing))
             ELSE None

\* What one lookup at the metadata source ends in: an answer, a failure for
\* this one item (not found, a bad answer), or the source being unreachable.
LookupOutcomes == {"ok", "error", "unavailable"}

\* A failure for one item taken for the source being unreachable.
FatalAny(outcome) == outcome # "ok"

\* Only the source being unreachable is fatal.
Fatal(outcome) == outcome = "unavailable"

\* A progress callback: (phase_label, current, total), total None when unknown.
Event(phase, current, total) == [phase |-> phase, current |-> current, total |-> total]

\* The current of the k-th callback of a phase, stuck at 1.
ProgressCurrentStuck(k) == 1

\* The current of the k-th callback of a phase.
ProgressCurrent(k) == k

NoPolicy == Policy(FALSE, 0, 0, {})

\* No scan begun. pc: "idle" | "scanning" | "returned" | "aborted".
\*   movies: the library's movies; with_id: those that have a tmdb_id;
\*   i: how many of with_id have been checked;
\*   failed: the movies and collections whose lookup failed for that one item;
\*   last: how the latest lookup ended;
\*   order: the collection ids found, in the order first seen;
\*   owned: per collection, the tmdb ids of the owned movies that belong to it;
\*   g: how many of order have been analyzed; gaps: the records so far.
NoScan ==
    [pc |-> "idle", movies |-> << >>, policy |-> NoPolicy, with_id |-> << >>, i |-> 0,
     failed |-> {}, last |-> "ok", order |-> << >>, owned |-> [c \in CollectionIds |-> {}],
     in_collections |-> 0, g |-> 0, gaps |-> << >>]

gapCacheVars == << enabled, fs, dirs, clock, stored, ret, wr, rd, st, eta, mono, out, rendered >>

\* find_gaps begins: the "Fetching" callback, then step 1, the library's movies
\* (the library source unreachable is fatal), and step 2.
FindGapsStart(movies, policy, outcome) ==
    /\ scan.pc = "idle"
    /\ events' = Append(events, Event("Fetching", 0, None))
    /\ scan' = IF Fatal(outcome)
               THEN [scan EXCEPT !.pc = "aborted", !.policy = policy, !.last = outcome]
               ELSE [scan EXCEPT !.pc = "scanning", !.movies = movies, !.policy = policy,
                                 !.with_id = WithTmdbId(movies), !.last = outcome]
    /\ UNCHANGED << report, output >>
    /\ UNCHANGED gapCacheVars

\* Step 3 for the next movie: the "Checking" callback, then get_movie.
CheckMovie(outcome) ==
    /\ scan.pc = "scanning"
    /\ scan.i < Len(scan.with_id)
    /\ LET id == scan.with_id[scan.i + 1]
           cid == CollectionIdOf(id)
       IN  /\ events' = Append(events, Event("Checking", ProgressCurrent(scan.i + 1),
                                              Some(Len(scan.with_id))))
           /\ scan' =
                CASE Fatal(outcome) -> [scan EXCEPT !.pc = "aborted", !.last = outcome]
                  [] outcome = "error" /\ ~Fatal(outcome) ->
                        [scan EXCEPT !.i = @ + 1, !.failed = @ \cup {id}, !.last = outcome]
                  [] OTHER ->
                        IF cid = None THEN [scan EXCEPT !.i = @ + 1, !.last = outcome]
                        ELSE [scan EXCEPT !.i = @ + 1, !.last = outcome,
                                          !.in_collections = @ + 1,
                                          !.owned[cid[1]] = @ \cup {id},
                                          !.order = IF \E n \in DOMAIN @ : @[n] = cid[1]
                                                    THEN @ ELSE Append(@, cid[1])]
    /\ UNCHANGED << report, output >>
    /\ UNCHANGED gapCacheVars

\* Steps 4-7 for the next group: the "Analyzing" callback, then, unless the
\* group's name is excluded, get_collection and the diff.
AnalyzeCollection(outcome) ==
    /\ scan.pc = "scanning"
    /\ scan.i = Len(scan.with_id)
    /\ scan.g < Len(scan.order)
    /\ LET c == Collections[scan.order[scan.g + 1]]
           gap == FindCollectionGap(c, scan.owned[c.id], scan.policy)
       IN  /\ events' = Append(events, Event("Analyzing", ProgressCurrent(scan.g + 1),
                                              Some(Len(scan.order))))
           /\ scan' =
                CASE c.name \in scan.policy.excluded_collections -> [scan EXCEPT !.g = @ + 1]
                  [] Fatal(outcome) -> [scan EXCEPT !.pc = "aborted", !.last = outcome]
                  [] outcome = "error" /\ ~Fatal(outcome) ->
                        [scan EXCEPT !.g = @ + 1, !.failed = @ \cup {c.id}, !.last = outcome]
                  [] OTHER -> [scan EXCEPT !.g = @ + 1, !.last = outcome,
                                           !.gaps = IF gap = None THEN @ ELSE Append(@, gap[1])]
    /\ UNCHANGED << report, output >>
    /\ UNCHANGED gapCacheVars

\* find_gaps returning its report before the scan is over.
FindGapsReturnEarly ==
    /\ scan.pc \in {"scanning", "aborted"}
    /\ report = None
    /\ report' = Some(MovieGapReport(Len(scan.movies), Len(scan.with_id),
                                     scan.in_collections, Len(scan.order), scan.gaps))
    /\ scan' = [scan EXCEPT !.pc = "returned"]
    /\ UNCHANGED << events, output >>
    /\ UNCHANGED gapCacheVars

\* Step 8: every movie checked and every group analyzed, find_gaps returns.
FindGapsReturn ==
    /\ scan.pc = "scanning"
    /\ scan.i = Len(scan.with_id)
    /\ scan.g = Len(scan.order)
    /\ report' = Some(MovieGapReport(Len(scan.movies), Len(scan.with_id),
                                     scan.in_collections, Len(scan.order), scan.gaps))
    /\ scan' = [scan EXCEPT !.pc = "returned"]
    /\ UNCHANGED << events, output >>
    /\ UNCHANGED gapCacheVars

\* The movies command after find_gaps returned: the report is written out. An
\* exception of find_gaps is not caught there, and nothing is written.
WriteOutput ==
    /\ report # None
    /\ output = None
    /\ output' = report
    /\ UNCHANGED << scan, events, report >>
    /\ UNCHANGED gapCacheVars

\* ------------------------------------------------------------ ETACalculator
\* A phase label is written as its parts between the separators ": ":
\* << "Checking", "A" >> is "Checking: A" and << "" >> is the empty label.
EmptyLabel == << "" >>

\* A phase key taken from the end of the label: its last part.
ExtractPhaseKeyDetail(phase) == << phase[Len(phase)] >>

\* A phase key that keeps the whole label.
ExtractPhaseKeyWhole(phase) == phase

\* _extract_phase_key: the label up to its first ": ".
ExtractPhaseKey(phase) == << Head(phase) >>

\* ETACalculator.alpha
Alpha == Frac(3, 20)
\* ETACalculator.min_update_interval, in seconds
DefaultMinUpdateInterval == 2
\* The gap between two updates from which the gap counts as a pause, in seconds.
PauseSeconds == 30

\* The fields of an ETACalculator; made is FALSE until one is constructed.
ETACalculator(min_samples, min_update_interval) ==
    [made |-> TRUE, min_samples |-> min_samples,
     min_update_interval |-> min_update_interval,
     ema_duration |-> Whole(0), samples |-> 0, last_time |-> None,
     last_phase_key |-> EmptyLabel, last_total |-> 0, remaining |-> None,
     last_display_time |-> 0, last_display_text |-> EmptyText]

NoCalculator == [ETACalculator(0, 0) EXCEPT !.made = FALSE]

\* ETACalculator._reset_phase
ResetPhase(e) ==
    [e EXCEPT !.ema_duration = Whole(0), !.samples = 0, !.last_time = None,
              !.remaining = None]

\* A pause test that lets a gap of exactly 30 seconds through as a sample.
IsPauseOver(dt) == dt > PauseSeconds

\* update: not (dt < 30.0)
IsPause(dt) == ~(dt < PauseSeconds)

\* The blend with the weights exchanged: alpha on the previous average.
SmoothSwapped(dt, ema) ==
    Frac((Alpha.d - Alpha.n) * dt * ema.d + Alpha.n * ema.n, Alpha.d * ema.d)

\* update: alpha * dt + (1 - alpha) * ema
Smooth(dt, ema) ==
    Frac(Alpha.n * dt * ema.d + (Alpha.d - Alpha.n) * ema.n, Alpha.d * ema.d)

\* A remaining time that leaves the items done out of account.
RemainingOfTotal(ema, current, total) == Frac(ema.n * total, ema.d)

\* update: ema * (total - current)
RemainingOf(ema, current, total) == Frac(ema.n * (total - current), ema.d)

\* update(phase, current, None): a total that is not known. None equals no
\* int, and None > 0 raises TypeError.
NoneTotal == 0 - 1

\* update: `samples >= min_samples and total > 0` reaches the comparison of
\* total, which raises on None, only when the first operand holds.
EstimateRaises(samples, min_samples, total) == samples >= min_samples /\ total = NoneTotal

\* An estimate given one sample early.
HasEstimateEarly(samples, min_samples, total) == samples + 1 >= min_samples /\ total > 0

\* update: samples >= min_samples and total > 0
HasEstimate(samples, min_samples, total) == samples >= min_samples /\ total > 0

\* remaining_seconds
RemainingSeconds(e) == e.remaining

\* The text of the state that never shows the almost-done phrase.
StateTextNoAlmostDone(e) ==
    IF e.remaining = None
    THEN IF e.samples > 0 THEN CalculatingText ELSE EmptyText
    ELSE FormatSeconds(e.remaining[1])

\* format_remaining: the text of the current state ("" is returned at once).
StateText(e) ==
    IF e.remaining = None
    THEN IF e.samples > 0 THEN CalculatingText ELSE EmptyText
    ELSE IF FracLess(e.remaining[1], Whole(1)) THEN AlmostDoneText
    ELSE FormatSeconds(e.remaining[1])

Rendered(time, text) == [time |-> time, text |-> text]

\* ETACalculator(min_samples=n)
NewCalculator(n) ==
    /\ eta' = ETACalculator(n, DefaultMinUpdateInterval)
    /\ out' = Out("new", << n >>, None)
    /\ rendered' = None
    /\ UNCHANGED << mono, scan, events, report, output >>
    /\ UNCHANGED << enabled, fs, dirs, clock, stored, ret, wr, rd, st >>

\* ETACalculator.update, called dt seconds after the previous call of the run.
Update(phase, current, total, dt) ==
    /\ eta.made
    /\ mono' = mono + dt
    /\ LET now == mono + dt
           phase_key == ExtractPhaseKey(phase)
           changed == phase_key # eta.last_phase_key \/ total # eta.last_total
           e1 == IF changed
                 THEN [ResetPhase(eta) EXCEPT !.last_phase_key = phase_key,
                                              !.last_total = total]
                 ELSE eta
           e2 == IF e1.last_time # None /\ ~IsPause(now - e1.last_time[1])
                 THEN [e1 EXCEPT !.ema_duration =
                                     IF e1.samples = 0
                                     THEN Whole(now - e1.last_time[1])
                                     ELSE Smooth(now - e1.last_time[1], e1.ema_duration),
                                 !.samples = @ + 1]
                 ELSE e1
           e3 == [e2 EXCEPT !.last_time = Some(now)]
           raises == EstimateRaises(e3.samples, e3.min_samples, total)
       IN  /\ eta' = IF raises THEN e3
                     ELSE [e3 EXCEPT !.remaining =
                                 IF HasEstimate(e3.samples, e3.min_samples, total)
                                 THEN Some(RemainingOf(e3.ema_duration, current, total))
                                 ELSE None]
           /\ out' = Out("update", << phase, current, total >>,
                         IF raises THEN Some("TypeError") ELSE None)
    /\ UNCHANGED << rendered, scan, events, report, output >>
    /\ UNCHANGED << enabled, fs, dirs, clock, stored, ret, wr, rd, st >>

\* format_remaining without the test of the time since the last display.
FormatRemainingUnthrottled(dt) ==
    /\ eta.made
    /\ mono' = mono + dt
    /\ LET now == mono + dt
           text == StateText(eta)
       IN  /\ out' = Out("format_remaining", << >>, text)
           /\ rendered' = Some(Rendered(now, text))
           /\ eta' = IF text = EmptyText THEN eta
                     ELSE [eta EXCEPT !.last_display_time = now,
                                      !.last_display_text = text]
    /\ UNCHANGED << scan, events, report, output >>
    /\ UNCHANGED << enabled, fs, dirs, clock, stored, ret, wr, rd, st >>

\* ETACalculator.format_remaining, called dt seconds after the previous call
\* of the run.
FormatRemaining(dt) ==
    /\ eta.made
    /\ mono' = mono + dt
    /\ LET now == mono + dt
           text == StateText(eta)
           held == /\ text # EmptyText
                   /\ eta.last_display_text # EmptyText
                   /\ now - eta.last_display_time < eta.min_update_interval
           returned == IF held THEN eta.last_display_text ELSE text
       IN  /\ out' = Out("format_remaining", << >>, returned)
           /\ rendered' = Some(Rendered(now, returned))
           /\ eta' = IF held \/ text = EmptyText THEN eta
                     ELSE [eta EXCEPT !.last_display_time = now,
                                      !.last_display_text = text]
    /\ UNCHANGED << scan, events, report, output >>
    /\ UNCHANGED << enabled, fs, dirs, clock, stored, ret, wr, rd, st >>

\* ETACalculator.reset
Reset ==
    /\ eta.made
    /\ eta' = ETACalculator(eta.min_samples, eta.min_update_interval)
    /\ out' = Out("reset", << >>, None)
    /\ UNCHANGED << mono, rendered, scan, events, report, output >>
    /\ UNCHANGED << enabled, fs, dirs, clock, stored, ret, wr, rd, st >>

\* _format_seconds(seconds) with seconds = tenths / 10.
CallFormatSeconds(tenths) ==
    /\ out' = Out("_format_seconds", << tenths >>, FormatSeconds(Frac(tenths, 10)))
    /\ UNCHANGED << eta, mono, rendered, scan, events, report, output >>
    /\ UNCHANGED << enabled, fs, dirs, clock, stored, ret, wr, rd, st >>

\* -------------------------------------------------------- retry_with_backoff
\* The arguments of the decorator.
RetryPolicy(max_retries, base_delay, max_delay, exponential_base) ==
    [max_retries |-> max_retries, base_delay |-> base_delay,
     max_delay |-> max_delay, exponential_base |-> exponential_base]

\* What a call of the wrapped function does: it returns, or raises an
\* exception of a class in retry_on (with or without a retry_after
\* attribute), or raises one of another class.
Returns == [kind |-> "returns", retry_after |-> None]
RaisesListed(retry_after) == [kind |-> "listed", retry_after |-> retry_after]
RaisesOther == [kind |-> "other", retry_after |-> None]

\* What the wrapper did: the calls of the function and the sleeps in their
\* order, and how it ended, with the number of the call whose result or
\* exception it passed on (calls are numbered from 0).
CallEvent(n) == [ev |-> "call", n |-> n]
SleepEvent(delay) == [ev |-> "sleep", n |-> delay]
WrapperResult(trace, how, attempt) == [trace |-> trace, how |-> how, attempt |-> attempt]

RECURSIVE Pow(_, _)
Pow(b, n) == IF n = 0 THEN 1 ELSE b * Pow(b, n - 1)

Min(a, b) == IF a <= b THEN a ELSE b

\* The delay computed after failed attempt `attempt` that raised e.
Delay(p, attempt, e) ==
    LET delay == Min(p.base_delay * Pow(p.exponential_base, attempt), p.max_delay)
    IN  IF e.retry_after # None /\ e.retry_after[1] # 0
        THEN Max(delay, e.retry_after[1])
        ELSE delay

\* The loop of the wrapper from attempt `attempt` on, over a range of `count`
\* attempts; outcomes[n + 1] is what call n of the function does.
RECURSIVE RetryLoop(_, _, _, _, _)
RetryLoop(count, p, outcomes, attempt, trace) ==
    IF attempt >= count
    THEN WrapperResult(trace, "raised", attempt - 1)
    ELSE LET e == outcomes[attempt + 1]
             called == Append(trace, CallEvent(attempt))
         IN  CASE e.kind = "returns" -> WrapperResult(called, "returned", attempt)
               [] e.kind = "other" -> WrapperResult(called, "raised", attempt)
               [] OTHER ->
                    IF attempt = p.max_retries
                    THEN WrapperResult(called, "raised", attempt)
                    ELSE RetryLoop(count, p, outcomes, attempt + 1,
                                   Append(called, SleepEvent(Delay(p, attempt, e))))

\* A wrapper whose loop runs over range(max_retries).
WrapperNoLastAttempt(p, outcomes) == RetryLoop(p.max_retries, p, outcomes, 0, << >>)

\* retry_with_backoff(...)(func)(*args): the loop runs over range(max_retries + 1).
Wrapper(p, outcomes) == RetryLoop(p.max_retries + 1, p, outcomes, 0, << >>)

\* The decorated function is called once.
CallWrapped(p, outcomes) ==
    /\ out' = Out("retry", << p, outcomes >>, Wrapper(p, outcomes))
    /\ UNCHANGED << eta, mono, rendered, scan, events, report, output >>
    /\ UNCHANGED << enabled, fs, dirs, clock, stored, ret, wr, rd, st >>

\* ---------------------------------------------------------- test_connections
\* The settings test_connections reads: each one is set (truthy) or not.
Config(plex_url, plex_token, tmdb_api_key, tvdb_api_key) ==
    [plex_url |-> plex_url, plex_token |-> plex_token,
     tmdb_api_key |-> tmdb_api_key, tvdb_api_key |-> tvdb_api_key]

\* ConnectionTestResult(), the fields the tests write.
ConnectionTestResult ==
    [plex_ok |-> FALSE, plex_error |-> FALSE,
     tmdb_ok |-> FALSE, tmdb_error |-> FALSE,
     tvdb_ok |-> FALSE, tvdb_error |-> FALSE]

\* ConnectionTestResult.plex_configured, tmdb_configured, tvdb_configured
PlexConfigured(cfg) == cfg.plex_url /\ cfg.plex_token
TmdbConfigured(cfg) == cfg.tmdb_api_key
TvdbConfigured(cfg) == cfg.tvdb_api_key

\* ConnectionTestResult.all_ok
AllOk(r) == r.plex_ok /\ r.tmdb_ok /\ r.tvdb_ok

\* The test of Plex: connect() succeeds or raises PlexError, and after it the
\* listing of the libraries can raise PlexError as well.
TestPlex(cfg, outcome, r) ==
    IF ~(cfg.plex_url /\ cfg.plex_token) THEN r
    ELSE CASE outcome = "ok" -> [r EXCEPT !.plex_ok = TRUE]
           [] outcome = "libraries_error" -> [r EXCEPT !.plex_ok = TRUE, !.plex_error = TRUE]
           [] OTHER -> [r EXCEPT !.plex_error = TRUE]

\* The test of TMDB.
TestTmdb(cfg, outcome, r) ==
    IF ~cfg.tmdb_api_key THEN r
    ELSE IF outcome = "ok" THEN [r EXCEPT !.tmdb_ok = TRUE]
         ELSE [r EXCEPT !.tmdb_error = TRUE]

\* The test of TVDB.
TestTvdb(cfg, outcome, r) ==
    IF ~cfg.tvdb_api_key THEN r
    ELSE IF outcome = "ok" THEN [r EXCEPT !.tvdb_ok = TRUE]
         ELSE [r EXCEPT !.tvdb_error = TRUE]

\* test_connections() is called and all_ok is read on its result; outcomes
\* says what each service does when it is tried.
TestConnections(cfg, outcomes) ==
    LET result == TestTvdb(cfg, outcomes.tvdb,
                      TestTmdb(cfg, outcomes.tmdb,
                          TestPlex(cfg, outcomes.plex, ConnectionTestResult)))
    IN  /\ out' = Out("test_connections", << cfg, outcomes >>,
                      [result |-> result, all_ok |-> AllOk(result)])
        /\ UNCHANGED << eta, mono, rendered, scan, events, report, output >>
        /\ UNCHANGED << enabled, fs, dirs, clock, stored, ret, wr, rd, st >>

\* --------------------------------------------------------- specifications
\* ttl_hours of the set calls (0: the entry lives to the end of the current hour).
TTLs == 0..MaxTtl

Keys2 == { <<"tmdb", "movies", "1">>, <<"tvdb", "episodes", "1">> }
KeyA == <<"tmdb", "movies", "1">>
PayloadA == << StrAtom("a") >>
PayloadB == << StrAtom("b") >>
PayloadDate == << DateAtom("2020-01-01") >>
PayloadTupleKey == << TupleKeyAtom >>

Init ==
    /\ enabled \in BOOLEAN
    /\ fs = [f \in FileNames |-> NoFile]
    /\ dirs = {}
    /\ clock = 0
    /\ stored = [k \in AllTriples |-> NotStored]
    /\ ret = NoCall("init")
    /\ wr = Idle
    /\ rd = Idle
    /\ st = None
    /\ scan = NoScan
    /\ events = << >>
    /\ report = None
    /\ output = None
    /\ eta = NoCalculator
    /\ mono = 0
    /\ out = NoOut
    /\ rendered = None

InitEnabled == Init /\ enabled

\* The cache used by one caller, calls never failing: TTL and disabled mode.
Next ==
    \/ \E k \in Keys2 : Get(k)
    \/ \E k \in Keys2, p \in {PayloadA, PayloadB, PayloadDate}, h \in TTLs : Set(k, p, h, "none")
    \/ \E k \in Keys2 : Delete(k)
    \/ \E ns \in ClearArgs : Clear(ns)
    \/ CleanupExpired
    \/ Tick
    \/ \E e \in BOOLEAN : Reopen(e)

Spec == Init /\ [][Next]_vars

\* Writes that fail: OSError at each step of the write, TypeError in json.dump.
NextFail ==
    \/ \E k \in Keys2 : Get(k)
    \/ \E k \in Keys2, p \in {PayloadA, PayloadB, PayloadTupleKey}, h \in TTLs, x \in Failures :
          Set(k, p, h, x)
    \/ Tick

SpecFail == InitEnabled /\ [][NextFail]_vars

\* Damaged and foreign files in the cache directory.
NextCorrupt ==
    \/ \E k \in Keys2 : Get(k)
    \/ \E k \in Keys2, h \in TTLs : Set(k, PayloadA, h, "none")
    \/ \E k \in Keys2, c \in Malformed : ExternalWrite(k, c)
    \/ CleanupExpired
    \/ Tick

SpecCorrupt == InitEnabled /\ [][NextCorrupt]_vars

\* clear over two namespaces, one of them with two categories.
NextClear ==
    \/ \E k \in Triples : Get(k)
    \/ \E k \in Triples, h \in TTLs : Set(k, PayloadA, h, "none")
    \/ \E k \in Triples : ExternalWrite(k, BadJson)
    \/ \E ns \in ClearArgs : Clear(ns)
    \/ Tick

SpecClear == InitEnabled /\ [][NextClear]_vars

\* stats over entries written at different times and over damaged files.
NextStats ==
    \/ \E k \in Keys2, h \in TTLs : Set(k, PayloadA, h, "none")
    \/ \E k \in Keys2, c \in Malformed : ExternalWrite(k, c)
    \/ Stats
    \/ Tick

SpecStats == InitEnabled /\ [][NextStats]_vars

\* One caller in set and one in get on the same directory, steps interleaved.
NextSteps ==
    \/ \E p \in {PayloadA, PayloadB}, h \in TTLs : SetStart(KeyA, p, h)
    \/ SetOpenTemp
    \/ SetDump
    \/ SetReplace
    \/ GetStart(KeyA)
    \/ GetLoad
    \/ GetUnlink
    \/ Tick

SpecSteps == InitEnabled /\ [][NextSteps]_vars

\* One scan of one library by the movies command.
MovieIds == TmdbIds \cup {NoTmdbId}
Libraries ==
    { m \in UNION { [1..n -> MovieIds] : n \in 0..MaxLib } :
        \A a, b \in DOMAIN m : a # b => m[a] # m[b] }
Policies ==
    { Policy(f, s, o, x) : f \in BOOLEAN, s \in {2, 3}, o \in {1, 2}, x \in {{}, {"B"}} }

NextGaps ==
    \/ \E m \in Libraries, p \in Policies, o \in {"ok", "unavailable"} : FindGapsStart(m, p, o)
    \/ \E o \in LookupOutcomes : CheckMovie(o)
    \/ \E o \in LookupOutcomes : AnalyzeCollection(o)
    \/ FindGapsReturn
    \/ WriteOutput

SpecGaps == InitEnabled /\ [][NextGaps]_vars

\* The pure functions: completion_percent over the counts of a collection and
\* _format_seconds over whole seconds (and the tenths under twelve seconds).
Counts == 0..MaxCount
SecondsTenths == { 10 * i : i \in (0 - 3)..MaxSeconds } \cup (0 - 20)..120
\* The collections read: up to MaxParts parts, numbered in their order, each
\* without a release date or released yesterday, today or tomorrow.
ReleaseDates == { None, Some(Today - 1), Some(Today), Some(Today + 1) }
PartLists ==
    UNION { { [i \in 1..n |-> TMDBMovie(i, d[i])] : d \in [1..n -> ReleaseDates] } : n \in 0..MaxParts }
\* A run makes one call.
NextPure ==
    \/ \E owned \in Counts, total \in Counts :
           out = NoOut /\ ReadCompletionPercent(owned, total)
    \/ \E t \in SecondsTenths : out = NoOut /\ CallFormatSeconds(t)
    \/ \E parts \in PartLists :
           out = NoOut /\ ReadReleasedMovies(TMDBCollection(1, "A", parts))

SpecPure == InitEnabled /\ [][NextPure]_vars

\* One call of a decorated function: the policies, in seconds, and what the
\* calls of the function do, one outcome for each call the loop can make.
BaseDelays == {1, 2}
MaxDelays == {3}
ExponentialBases == {2}
RetryAfters == { None, Some(0), Some(2), Some(5) }
CallOutcomes == { Returns, RaisesOther } \cup { RaisesListed(h) : h \in RetryAfters }
RetryPolicies ==
    { RetryPolicy(n, b, m, x) :
        n \in 0..MaxRetries, b \in BaseDelays, m \in MaxDelays, x \in ExponentialBases }

NextRetry ==
    \E p \in RetryPolicies :
        \E outcomes \in [1..(p.max_retries + 1) -> CallOutcomes] :
            out = NoOut /\ CallWrapped(p, outcomes)

SpecRetry == InitEnabled /\ [][NextRetry]_vars

\* One call of test_connections under every configuration, each service
\* reachable or failing with its own error class.
Configs == { Config(u, t, m, v) : u \in BOOLEAN, t \in BOOLEAN, m \in BOOLEAN, v \in BOOLEAN }
ConnectOutcomes ==
    [plex : {"ok", "error", "libraries_error"}, tmdb : {"ok", "error"}, tvdb : {"ok", "error"}]

NextConn ==
    \E cfg \in Configs, outcomes \in ConnectOutcomes :
        out = NoOut /\ TestConnections(cfg, outcomes)

SpecConn == InitEnabled /\ [][NextConn]_vars

\* One estimator fed by ticks and rendered, seconds apart.
Labels == { << "Checking", "A" >>, << "Checking", "B" >>, << "Analyzing" >> }
Totals == {0, 2}
Currents == 1..2
NextEta ==
    \/ \E n \in 1..MaxMinSamples : ~eta.made /\ NewCalculator(n)
    \/ \E phase \in Labels, current \in Currents, total \in Totals, dt \in 0..2 :
           /\ mono + dt <= MaxMono
           /\ eta.samples < MaxSamples
           /\ Update(phase, current, total, dt)
    \/ \E dt \in 0..2 : mono + dt <= MaxMono /\ FormatRemaining(dt)
    \/ Reset

SpecEta == InitEnabled /\ [][NextEta]_vars

\* One estimator fed by ticks that come a second or about half a minute apart.
PauseLabels == { << "Checking", "A" >>, << "Analyzing" >> }
PauseDeltas == {1, 29, 30, 31}
NextPause ==
    \/ \E n \in 1..MaxMinSamples : ~eta.made /\ NewCalculator(n)
    \/ \E phase \in PauseLabels, current \in Currents, dt \in PauseDeltas :
           /\ mono + dt <= MaxPauseMono
           /\ eta.samples < MaxSamples
           /\ Update(phase, current, 2, dt)

SpecPause == InitEnabled /\ [][NextPause]_vars

\* clear and cleanup_expired over directories that writes, failed writes and
\* damaged files have left behind.
NonObject == Content("nonobj", "missing", "falsy", 0, 0, None)
NextPrune ==
    \/ \E k \in Triples, x \in {"none", "open"} : Set(k, PayloadA, 0, x)
    \/ Set(KeyA, PayloadTupleKey, 0, "none")
    \/ ExternalWrite(KeyA, NonObject)
    \/ \E ns \in ClearArgs : Clear(ns)
    \/ CleanupExpired
    \/ Tick

SpecPrune == InitEnabled /\ [][NextPrune]_vars

\* Two keys of one category side by side: reads, writes that fail at each
\* step, deletes, damaged files and expiry.
LocalKeys == {KeyA, Sibling}
Unparsable == Content("obj", "dict", "unparsable", 0, 0, Some(<< StrAtom("a") >>))
NextLocal ==
    \/ \E k \in LocalKeys : Get(k)
    \/ \E k \in LocalKeys, p \in {PayloadA, PayloadTupleKey}, x \in Failures : Set(k, p, 0, x)
    \/ \E k \in LocalKeys : Delete(k)
    \/ \E k \in LocalKeys, c \in {BadJson, Unparsable} : ExternalWrite(k, c)
    \/ Tick

SpecLocal == InitEnabled /\ [][NextLocal]_vars

\* One estimator fed by ticks a second apart whose labels have no, one or two
\* separators, or are empty.
PhaseLabels ==
    { << "Checking", "A" >>, << "Checking", "B" >>, << "Checking", "A", "B" >>,
      << "Checking" >>, << "Analyzing" >>, EmptyLabel }
NextPhase ==
    \/ \E n \in 1..MaxMinSamples : ~eta.made /\ NewCalculator(n)
    \/ \E phase \in PhaseLabels, total \in {2, 3}, dt \in 1..2 :
           /\ mono + dt <= MaxMono
           /\ Update(phase, 1, total, dt)

SpecPhase == InitEnabled /\ [][NextPhase]_vars

\* One estimator fed by ticks of a phase whose total is not known.
UnknownTotals == {NoneTotal, 0}
NextUnknown ==
    \/ \E n \in 1..MaxMinSamples : ~eta.made /\ NewCalculator(n)
    \/ \E phase \in Labels, current \in Currents, total \in UnknownTotals, dt \in 1..2 :
           /\ mono + dt <= MaxMono
           /\ Update(phase, current, total, dt)
    \/ \E dt \in 0..1 : mono + dt <= MaxMono /\ FormatRemaining(dt)

SpecUnknown == InitEnabled /\ [][NextUnknown]_vars

\* ------------------------------------------------------------------ claims
\* The state right after a call of op returned (or raised).
After(op) == ret.op = op
\* The step is a call of op on triple k.
Called(op, k) == ret'.op = op /\ ret'.key = k
\* The payload triple k is owed is still within its TTL.
Owed(k) == stored[k].has /\ clock <= stored[k].at + stored[k].ttl

\* C1 (as stated): with caching enabled, a get on a triple whose last set
\* succeeded, made no later than cached_at + ttl_hours with no delete, clear or
\* set of the triple in between, returns exactly the payload handed to set.
C1_RoundTripExact ==
    (After("get") /\ enabled /\ Owed(ret.key))
        => ret.value = Some(stored[ret.key].payload)

\* C1 (amended): under the same conditions get returns the payload as JSON
\* reads it back: the payload itself when it holds JSON-native values only,
\* and a value json cannot encode (a date) as its str().
C1_RoundTripJson ==
    (After("get") /\ enabled /\ Owed(ret.key))
        => /\ ret.raised = "none"
           /\ ret.value = Some(IF stored[ret.key].payload \in NativePayloads
                               THEN stored[ret.key].payload
                               ELSE << StrAtom("2020-01-01") >>)

\* A get in the last hour of the TTL returned the stored date as a string.
C1_Witness ==
    /\ After("get") /\ enabled /\ stored[ret.key].has
    /\ stored[ret.key].ttl > 0
    /\ clock = stored[ret.key].at + stored[ret.key].ttl
    /\ stored[ret.key].at > 0
    /\ stored[ret.key].payload = PayloadDate
    /\ ret.value = Some(<< StrAtom("2020-01-01") >>)

\* C2: with caching enabled, a get on a well-formed entry made strictly after
\* expires_at returns absent and deletes the entry, and a get at or before
\* expires_at leaves the entry as it is; an absent entry stays absent for get
\* (which returns absent) and delete (which returns false) until a set of it.
C2_LazyExpiry ==
    [][\A k \in Keys2 :
        LET path == GetPath(k)
            c == fs[path]
        IN  /\ (enabled /\ WellFormed(c) /\ Called("get", k)) =>
                  IF clock > c.expires_at
                  THEN ret'.value = None /\ ret'.raised = "none" /\ fs'[path] = NoFile
                  ELSE fs'[path] = c
            /\ (~Exists(path) /\ Called("get", k)) => ret'.value = None /\ fs'[path] = NoFile
            /\ (~Exists(path) /\ Called("delete", k)) => ret'.flag = FALSE
            /\ (~Exists(path) /\ fs'[path] # NoFile) => Called("set", k)
      ]_vars

\* A get found the entry expired and removed it.
C2_Witness ==
    /\ After("get") /\ enabled /\ stored[ret.key].has
    /\ clock > stored[ret.key].at + stored[ret.key].ttl
    /\ ret.value = None
    /\ ~Exists(GetPath(ret.key))

\* C3: a get on an entry file that is not a well-formed cache entry returns
\* absent, removes the file and raises nothing.
C3_GetNeverRaises ==
    [][\A k \in Keys2 :
        LET path == GetPath(k) IN
        (enabled /\ Exists(path) /\ ~WellFormed(fs[path]) /\ Called("get", k)) =>
            ret'.value = None /\ ret'.raised = "none" /\ fs'[path] = NoFile
      ]_vars

\* C4: a set that fails leaves the entry file of its triple as it was, so a
\* following get returns what it would have returned without the set.
C4_FailedSetInvisible ==
    [][\A k \in Keys2 :
        LET path == GetPath(k) IN
        (Called("set", k) /\ ret'.raised # "none") =>
            /\ fs'[path] = fs[path]
            /\ GetOutcome(enabled, fs'[path], clock) = GetOutcome(enabled, fs[path], clock)
      ]_vars

\* A set failed on a triple that holds an unexpired entry, which is intact.
C4_Witness ==
    /\ After("set") /\ ret.raised # "none"
    /\ WellFormed(fs[GetPath(ret.key)])
    /\ clock <= fs[GetPath(ret.key)].expires_at
    /\ fs[GetPath(ret.key)].cached_at < clock

\* C5: whenever set fails the failure is raised and no temporary file is left
\* in the entry's directory, whatever the kind of failure.
C5_NoTempAfterFailure ==
    (After("set") /\ ret.raised # "none") => ~Exists(TempPath(GetPath(ret.key)))

\* C6: with caching disabled every get returns absent, whatever set, delete
\* and get calls came before, and whatever the directory holds.
C6_DisabledGetAbsent ==
    (After("get") /\ ~enabled) => ret.value = None /\ ret.raised = "none"

\* A disabled cache returned absent for a triple whose unexpired entry is on disk.
C6_Witness ==
    /\ After("get") /\ ~enabled
    /\ WellFormed(fs[GetPath(ret.key)])
    /\ clock <= fs[GetPath(ret.key)].expires_at

\* C7: with caching disabled, set, delete and get leave every file as it is.
C7_DisabledNoOp ==
    [][(~enabled /\ ret'.op \in {"set", "delete", "get"}) => fs' = fs]_vars

\* C8 (as stated): a get interleaved with a set on the same key never parses
\* incomplete content; it returns absent or a complete payload handed to set;
\* and a get begun after the rename returns the complete new payload.
StepPayloads == { Some(JsonImage(PayloadA)), Some(JsonImage(PayloadB)) }

C8_CompleteAndNewAfterRename ==
    /\ rd.entry.json # "bad"
    /\ (After("get") /\ ret.value # None) => ret.value \in StepPayloads
    /\ (After("get") /\ rd.pc = "idle" /\ rd.after /\ Owed(ret.key))
          => ret.value = Some(JsonImage(stored[ret.key].payload))

\* C8 (amended): a get interleaved with a set on the same key never parses
\* incomplete content; it returns absent or a complete payload handed to set;
\* and a get begun after the rename that finds the entry file returns the
\* complete new payload. (It may find no file: a get that read the expired
\* previous entry before the rename unlinks the path after it.)
C8_NeverPartial ==
    /\ rd.entry.json # "bad"
    /\ rd.pc = "unlink" => (rd.entry.json = "nofile" \/ WellFormed(rd.entry))
    /\ (After("get") /\ ret.value # None) => ret.value \in StepPayloads
    /\ (After("get") /\ rd.pc = "idle" /\ rd.after /\ Owed(ret.key)
            /\ rd.entry.json # "nofile")
          => ret.value = Some(JsonImage(stored[ret.key].payload))

\* A get is between exists() and open() while set has its temporary file
\* open and partly written, the entry file holding the previous entry.
C8_Witness ==
    /\ rd.pc = "load" /\ wr.pc = "dump" /\ rd.key = wr.key
    /\ fs[TempPath(GetPath(wr.key))] = BadJson
    /\ WellFormed(fs[GetPath(rd.key)])

\* C9: cleanup_expired deletes every entry whose expires_at is before now and
\* every corrupted entry, keeps every unexpired well-formed entry, and returns
\* the number of entries it deleted.
C9_SweepExact ==
    [][ret'.op = "cleanup_expired" =>
        /\ ret'.raised = "none"
        /\ \A f \in JsonFiles : Exists(f) =>
              IF ~WellFormed(fs[f]) \/ fs[f].expires_at < clock
              THEN fs'[f] = NoFile
              ELSE fs'[f] = fs[f]
        /\ ret'.count = Cardinality({ f \in JsonFiles : Exists(f) /\ fs'[f] = NoFile })
      ]_vars

\* C10: clear(namespace) deletes every entry of the namespace and no other
\* entry, clear() deletes every entry; the count returned is the number of
\* entries deleted, and a get on a deleted key then returns absent.
C10_ClearExact ==
    [][\A ns \in ClearArgs :
        (ret'.op = "clear" /\ ret'.key[1] = ns) =>
            /\ \A f \in JsonFiles :
                  IF ns = "*" \/ f[1] = ns
                  THEN fs'[f] = NoFile /\ GetOutcome(enabled, fs'[f], clock) = Miss
                  ELSE fs'[f] = fs[f]
            /\ ret'.count = Cardinality({ f \in JsonFiles : Exists(f) /\ fs'[f] = NoFile })
            /\ ret'.raised = "none"
      ]_vars

\* clear("tmdb") deleted the two tmdb entries and left the tvdb entry.
C10_Witness ==
    /\ After("clear") /\ ret.key[1] = "tmdb" /\ ret.count = 2
    /\ Exists(GetPath(<<"tvdb", "episodes", "1">>))
    /\ ~Exists(GetPath(<<"tmdb", "movies", "1">>))
    /\ ~Exists(GetPath(<<"tmdb", "collections", "1">>))

\* C11: stats never raises, whatever the files hold: it skips the files it
\* cannot read, and oldest_entry and newest_entry are the least and the
\* greatest cached_at of the entries it can read (None when there is none).
C11_StatsTolerant ==
    After("stats") =>
        LET J == { f \in JsonFiles : Exists(f) }
            readable == { f \in J : fs[f].json = "obj" /\ fs[f].meta = "dict"
                                     /\ fs[f].exp \in {"naive", "aware"} }
            times == { fs[f].cached_at : f \in readable }
        IN  /\ ret.raised = "none"
            /\ st # None
            /\ st[1].total_entries = Cardinality(J)
            /\ st[1].oldest_entry = (IF times = {} THEN None ELSE Some(MinOf(times)))
            /\ st[1].newest_entry = (IF times = {} THEN None ELSE Some(MaxOf(times)))


Reported == report # None
\* The gap records of the report.
Gaps == report[1].collections_with_gaps
\* The tmdb ids the library holds whose lookup did not fail.
OwnedResolved ==
    { scan.movies[n] : n \in DOMAIN scan.movies } \ ({NoTmdbId} \cup scan.failed)
\* The canonical list of collection c after the future-date filter.
Canonical(c) ==
    SelectSeq(Collections[c].parts,
              LAMBDA m : scan.policy.include_future \/ m.release_date[1] <= Today)
\* The ids of a list of movies, in its order.
IdsOf(ms) == [n \in DOMAIN ms |-> ms[n].id]
\* The canonical items of c nobody owns, in canonical order.
Unowned(c) == IdsOf(SelectSeq(Canonical(c), LAMBDA m : m.id \notin OwnedResolved))
\* The number of canonical items of c matched by id to an owned item.
Matched(c) == Cardinality({ n \in DOMAIN Canonical(c) : Canonical(c)[n].id \in OwnedResolved })
\* Collection c has a record in the report.
Listed(c) == \E n \in DOMAIN Gaps : Gaps[n].collection_id = c
\* Collection c was found for an owned movie, looked up, and passes the
\* excluded-names and minimum-size filters.
Analysed(c) ==
    /\ \E id \in OwnedResolved : CollectionIdOf(id) = Some(c)
    /\ c \notin scan.failed
    /\ Collections[c].name \notin scan.policy.excluded_collections
    /\ Len(Collections[c].parts) >= scan.policy.min_collection_size

\* C13: in every record of a report, missing_movies is exactly the filtered
\* canonical items whose id is not owned, in canonical order; with T the size of
\* the filtered canonical list and O the number of its items matched to owned
\* ones, missing has size T - O and owned_movies + len(missing) = total_movies = T.
C13_DiffCorrect ==
    Reported =>
        \A n \in DOMAIN Gaps :
            LET gap == Gaps[n]
                T == Len(Canonical(gap.collection_id))
                O == Matched(gap.collection_id)
            IN  /\ gap.missing_movies = Unowned(gap.collection_id)
                /\ Len(gap.missing_movies) = T - O
                /\ gap.total_movies = T
                /\ gap.owned_movies = O
                /\ gap.owned_movies + Len(gap.missing_movies) = gap.total_movies

\* A report with a record of one owned and two missing movies, the missing ones
\* in the order of the canonical list.
C13_Witness ==
    /\ Reported
    /\ \E n \in DOMAIN Gaps :
          /\ Gaps[n].owned_movies = 1
          /\ Gaps[n].missing_movies = << 7, 5 >>


\* C14: with include_future false a part dated after today takes no part in
\* the diff: it is in no missing list and in no total, and a collection whose
\* other parts are all owned has no record; with include_future true the part
\* is in the total, and in the missing list of its collection when not owned.
C14_FutureFilter ==
    Reported =>
        LET future(c) == { m \in { Collections[c].parts[n] : n \in DOMAIN Collections[c].parts } :
                              m.release_date[1] > Today }
            due(c) == { m \in { Collections[c].parts[n] : n \in DOMAIN Collections[c].parts } :
                              m.release_date[1] <= Today }
            rec(c) == Gaps[CHOOSE n \in DOMAIN Gaps : Gaps[n].collection_id = c]
            missing(c) == { rec(c).missing_movies[n] : n \in DOMAIN rec(c).missing_movies }
        IN  \A c \in CollectionIds :
              IF scan.policy.include_future
              THEN /\ Listed(c) =>
                        /\ rec(c).total_movies = Len(Collections[c].parts)
                        /\ \A m \in future(c) : m.id \notin OwnedResolved => m.id \in missing(c)
                   /\ ( /\ Analysed(c)
                        /\ Matched(c) >= scan.policy.min_owned
                        /\ \E m \in future(c) : m.id \notin OwnedResolved ) => Listed(c)
              ELSE /\ Listed(c) =>
                        /\ rec(c).total_movies = Cardinality(due(c))
                        /\ rec(c).owned_movies <= Cardinality(due(c))
                        /\ \A m \in future(c) : m.id \notin missing(c)
                   /\ (\A m \in due(c) : m.id \in OwnedResolved) => ~Listed(c)

\* A report made with include_future false for a library that holds the
\* released part of collection 10 and not the part announced for tomorrow:
\* the collection was analysed and has no record.
C14_Witness ==
    /\ Reported
    /\ ~scan.policy.include_future
    /\ Analysed(10)
    /\ 1 \in OwnedResolved
    /\ 3 \notin OwnedResolved
    /\ ~Listed(10)

\* A report made with include_future true for the same library lists the part
\* announced for tomorrow as missing.
C14_WitnessIncluded ==
    /\ Reported
    /\ scan.policy.include_future
    /\ 1 \in OwnedResolved
    /\ Listed(10)
    /\ \E n \in DOMAIN Gaps : Gaps[n].missing_movies = << 3 >>


\* C15: min_owned is tested on the owned_count of the diff: a collection that
\* was analysed has no record when fewer than min_owned of its filtered
\* canonical items are owned, even with items missing, and has a record when
\* at least min_owned are owned and an item is missing.
C15_MinOwnedAfterDiff ==
    Reported =>
        \A c \in CollectionIds :
            /\ Matched(c) < scan.policy.min_owned => ~Listed(c)
            /\ (Analysed(c) /\ Matched(c) >= scan.policy.min_owned /\ Unowned(c) # << >>)
                  => Listed(c)

\* A report for a library that holds one movie of an analysed collection with
\* items missing, made with min_owned 2: the collection has no record.
C15_Witness ==
    /\ Reported
    /\ scan.policy.min_owned = 2
    /\ \E c \in CollectionIds :
          Analysed(c) /\ Matched(c) = 1 /\ Unowned(c) # << >> /\ ~Listed(c)

\* The same library scanned with min_owned 1: the collection has its record.
C15_WitnessListed ==
    /\ Reported
    /\ scan.policy.min_owned = 1
    /\ \E c \in CollectionIds : Matched(c) = 1 /\ Unowned(c) # << >> /\ Listed(c)

\* C16: a lookup that fails for one movie or one collection does not end the
\* scan: the scan is aborted only when the library or the metadata source is
\* unreachable; the movie whose lookup failed is counted as owned in no
\* record and not among the movies in collections.
C16_ItemFailureNotFatal ==
    /\ scan.pc = "aborted" <=> (scan.pc # "idle" /\ scan.last = "unavailable")
    /\ (scan.last = "error" /\ scan.pc # "idle") => scan.pc \in {"scanning", "returned"}
    /\ Reported =>
          /\ \A n \in DOMAIN Gaps :
                Gaps[n].owned_movies =
                   Cardinality({ k \in DOMAIN scan.movies :
                                   /\ scan.movies[k] \notin scan.failed
                                   /\ \E j \in DOMAIN Canonical(Gaps[n].collection_id) :
                                         Canonical(Gaps[n].collection_id)[j].id = scan.movies[k] })
          /\ report[1].movies_in_collections =
                Cardinality({ k \in DOMAIN scan.movies :
                                /\ scan.movies[k] \notin scan.failed
                                /\ CollectionIdOf(scan.movies[k]) # None })

\* A scan in which the lookup of one movie failed has returned a report that
\* holds a record for the collection of another movie.
C16_Witness ==
    /\ Reported
    /\ \E k \in DOMAIN scan.movies : scan.movies[k] \in scan.failed
    /\ Gaps # << >>


\* The number of callbacks of a phase so far.
EventsOf(phase) == Cardinality({ n \in DOMAIN events : events[n].phase = phase })
\* The collections of the owned movies whose lookup gave one.
GroupsFound == { c \in CollectionIds : \E id \in OwnedResolved : CollectionIdOf(id) = Some(c) }

\* C17: find_gaps has returned a report, and the movies command has written
\* one out, only when every owned movie that has a tmdb id was checked and
\* every collection found was analysed; a scan that was aborted has no report
\* and nothing is written out, and what is written out is the report.
C17_NoPartialReport ==
    /\ Reported =>
          /\ scan.pc = "returned"
          /\ EventsOf("Checking") =
                Cardinality({ k \in DOMAIN scan.movies : scan.movies[k] # NoTmdbId })
          /\ EventsOf("Analyzing") = Cardinality(GroupsFound)
          /\ scan.last # "unavailable"
    /\ scan.pc \in {"idle", "scanning", "aborted"} => (report = None /\ output = None)
    /\ output # None => output = report

\* The movies command has written out the report of a scan that checked two
\* movies and analysed two collections.
C17_Witness ==
    /\ output # None
    /\ EventsOf("Checking") = 2
    /\ EventsOf("Analyzing") = 2

\* A scan was aborted after a movie had been checked: there is no report.
C17_WitnessAborted ==
    /\ scan.pc = "aborted"
    /\ EventsOf("Checking") = 2
    /\ report = None

\* C18: in every report total_movies_scanned is the number of movies the
\* library returned, those without tmdb id included; movies_with_tmdb_id is the
\* number of those that have one; movies_in_collections is at most
\* movies_with_tmdb_id; and a movie without tmdb id or in no collection is in
\* no record, neither as owned nor as missing.
C18_ScanCounts ==
    Reported =>
        LET r == report[1]
            withId == { k \in DOMAIN scan.movies : scan.movies[k] # NoTmdbId }
        IN  /\ r.total_movies_scanned = Len(scan.movies)
            /\ r.movies_with_tmdb_id = Cardinality(withId)
            /\ r.movies_in_collections <= r.movies_with_tmdb_id
            /\ r.movies_in_collections <=
                  Cardinality({ k \in withId : CollectionIdOf(scan.movies[k]) # None })
            /\ \A n \in DOMAIN Gaps :
                  /\ Gaps[n].owned_movies <=
                        Cardinality({ k \in withId :
                                        CollectionIdOf(scan.movies[k]) = Some(Gaps[n].collection_id) })
                  /\ \A j \in DOMAIN Gaps[n].missing_movies :
                        /\ Gaps[n].missing_movies[j] # NoTmdbId
                        /\ CollectionIdOf(Gaps[n].missing_movies[j]) = Some(Gaps[n].collection_id)

\* A report for a library of a movie without tmdb id and a movie of a
\* collection: two scanned, one with tmdb id, one in collections.
C18_Witness ==
    /\ Reported
    /\ report[1].total_movies_scanned = 2
    /\ report[1].movies_with_tmdb_id = 1
    /\ report[1].movies_in_collections = 1
    /\ Gaps # << >>

\* A report for a library of a movie in no collection and a movie without
\* tmdb id: nothing in collections, no record.
C18_WitnessNoCollection ==
    /\ Reported
    /\ report[1].total_movies_scanned = 2
    /\ report[1].movies_with_tmdb_id = 1
    /\ report[1].movies_in_collections = 0
    /\ Gaps = << >>


\* C19: a collection has a record in the report if and only if it was
\* analysed, its missing list after filtering is not empty and it passes
\* min_owned; a collection of which every filtered canonical item is owned has
\* none, no record has an empty missing list, and no collection has two.
C19_OnlyGapsListed ==
    Reported =>
        /\ \A n \in DOMAIN Gaps : Gaps[n].missing_movies # << >>
        /\ \A n, k \in DOMAIN Gaps : Gaps[n].collection_id = Gaps[k].collection_id => n = k
        /\ \A c \in CollectionIds :
              /\ Listed(c) <=> ( /\ Analysed(c)
                                 /\ Unowned(c) # << >>
                                 /\ Matched(c) >= scan.policy.min_owned )
              /\ Unowned(c) = << >> => ~Listed(c)

\* A report for a library that holds every released part of an analysed
\* collection and one movie of another: only the other one has a record.
C19_Witness ==
    /\ Reported
    /\ \E c \in CollectionIds :
          Analysed(c) /\ Matched(c) >= scan.policy.min_owned /\ Unowned(c) = << >> /\ ~Listed(c)
    /\ Len(Gaps) = 1

\* The phases in the order of the scan.
PhaseRank(phase) ==
    CASE phase = "Fetching" -> 0 [] phase = "Checking" -> 1 [] phase = "Analyzing" -> 2

\* C20: the first callback of a scan is the fetching one and there is only
\* one; no checking callback comes after an analyzing one; and from one
\* callback of a phase to a later one of the same phase current grows and
\* total stays the same.
C20_ProgressOrder ==
    /\ events # << >> => events[1].phase = "Fetching"
    /\ \A a, b \in DOMAIN events :
          a < b =>
             /\ PhaseRank(events[a].phase) <= PhaseRank(events[b].phase)
             /\ events[b].phase # "Fetching"
             /\ events[a].phase = events[b].phase =>
                   /\ events[a].current < events[b].current
                   /\ events[a].total = events[b].total

\* A scan that has made the fetching callback, two checking callbacks and two
\* analyzing callbacks.
C20_Witness ==
    /\ Len(events) = 5
    /\ EventsOf("Checking") = 2
    /\ EventsOf("Analyzing") = 2

\* ------------------------------------- claims on the numbers shown to the user
Abs(i) == IF i < 0 THEN 0 - i ELSE i
\* v is a multiple of step and no multiple of step is nearer to x.
IsNearest(v, x, step) == v % step = 0 /\ 2 * Abs(v - x) <= step

\* C21: completion_percent of a collection is owned / total * 100, it is 100
\* when total is 0 (nothing is raised), and it lies between 0 and 100 when
\* owned <= total.
C21_CompletionPercent ==
    out.op = "completion_percent" =>
        LET owned == out.arg[1]
            total == out.arg[2]
            v == out.value.value
        IN  /\ out.value.raised = "none"
            /\ total = 0 => FracEq(v, Whole(100))
            /\ total # 0 => v.n * total = owned * 100 * v.d
            /\ owned <= total => ~FracLess(v, Whole(0)) /\ ~FracLess(Whole(100), v)

\* An empty collection was read, and so was one owned in part.
C21_Witness ==
    /\ out.op = "completion_percent"
    /\ out.arg = << 0, 0 >>
    /\ FracEq(out.value.value, Whole(100))

C21_WitnessPartial ==
    /\ out.op = "completion_percent"
    /\ out.arg = << 3, 4 >>
    /\ FracEq(out.value.value, Whole(75))

\* The texts the graduated rule allows for s whole seconds (s >= 0), least
\* being the smallest figure shown under ten seconds.
GraduatedRule(s, least) ==
    IF s < 10 THEN { Remaining1(Max(least, s), "s") }
    ELSE IF s < 60 THEN { Remaining1(v, "s") : v \in { w \in 0..60 : IsNearest(w, s, 5) } }
    ELSE IF s < 3600
    THEN { IF r = 60 THEN Remaining1(s \div 60 + 1, "m")
           ELSE IF r = 0 THEN Remaining1(s \div 60, "m")
           ELSE Remaining2(s \div 60, "m", r, "s") :
               r \in { w \in 0..60 : IsNearest(w, s % 60, 10) } }
    ELSE IF (s \div 60) % 60 = 0
    THEN { Remaining1(s \div 3600, "h") }
    ELSE { Remaining2(s \div 3600, "h", (s \div 60) % 60, "m") }

\* The worked cases of the rule: 7.3, 23, 60, 150 and 3600 seconds.
GraduatedExamples ==
    /\ out.arg = << 73 >> => out.value = Remaining1(7, "s")
    /\ out.arg = << 230 >> => out.value = Remaining1(25, "s")
    /\ out.arg = << 600 >> => out.value = Remaining1(1, "m")
    /\ out.arg = << 1500 >> => out.value = Remaining2(2, "m", 30, "s")
    /\ out.arg = << 36000 >> => out.value = Remaining1(1, "h")

\* C26 as stated: for every whole number of seconds the text follows the
\* graduated rule with the nearest second shown under ten seconds, and a
\* negative input gives the text of 0.
C26_Graduated ==
    out.op = "_format_seconds" =>
        LET t == out.arg[1]
        IN  /\ (t >= 0 /\ t % 10 = 0) => out.value \in GraduatedRule(t \div 10, 0)
            /\ t < 0 => out.value = FormatSeconds(Whole(0))
            /\ GraduatedExamples

\* C26 (amended): for every whole number of seconds the text follows the
\* graduated rule, the figure shown under ten seconds being the nearest second
\* but never less than 1; a negative input gives the text of 0.
C26_GraduatedAtLeastOne ==
    out.op = "_format_seconds" =>
        LET t == out.arg[1]
        IN  /\ (t >= 0 /\ t % 10 = 0) => out.value \in GraduatedRule(t \div 10, 1)
            /\ t < 0 => out.value = FormatSeconds(Whole(0))
            /\ GraduatedExamples

\* Zero seconds were formatted, and so was a time that carries into the minutes.
C26_Witness ==
    /\ out.op = "_format_seconds"
    /\ out.arg = << 0 >>
    /\ out.value = Remaining1(1, "s")

C26_WitnessCarry ==
    /\ out.op = "_format_seconds"
    /\ out.arg = << 1150 >>
    /\ out.value = Remaining1(2, "m")

\* ------------------------------------------------- claims on the estimator
\* The last call was update(phase, current, total).
Ticked == out.op = "update"
\* The step is a call of the method named.
Calls(op) == out'.op = op /\ << eta, mono, out, rendered >> # << eta', mono', out', rendered' >>
Positive(a) == FracLess(Whole(0), a)

\* C22: whenever fewer than min_samples samples have been accumulated in the
\* current phase, remaining_seconds is None.
C22_WarmUpAbsent ==
    (eta.made /\ eta.samples < eta.min_samples) => RemainingSeconds(eta) = None

\* One sample of the two needed is there, the total being known.
C22_Witness ==
    /\ Ticked
    /\ eta.min_samples = 2 /\ eta.samples = 1 /\ eta.last_total > 0
    /\ RemainingSeconds(eta) = None

\* C23 as stated: once min_samples samples have been accumulated in the current
\* phase and the total is known, remaining_seconds is a positive number.
C23_AvailablePositive ==
    (eta.made /\ eta.samples >= eta.min_samples /\ eta.last_total > 0) =>
        /\ RemainingSeconds(eta) # None
        /\ Positive(RemainingSeconds(eta)[1])

\* C23 (amended): once min_samples samples have been accumulated in the current
\* phase and the total is known, remaining_seconds is a number: the smoothed
\* duration times (total - current) of the last tick, which is positive when
\* current < total and the smoothed duration is positive, and zero when
\* current = total.
C23_AvailableProduct ==
    (eta.made /\ eta.samples >= eta.min_samples /\ eta.last_total > 0) =>
        /\ RemainingSeconds(eta) # None
        /\ Ticked =>
               LET r == RemainingSeconds(eta)[1]
                   current == out.arg[2]
                   total == out.arg[3]
               IN  /\ r.n * eta.ema_duration.d = eta.ema_duration.n * (total - current) * r.d
                   /\ (current < total /\ Positive(eta.ema_duration)) => Positive(r)
                   /\ current = total => FracEq(r, Whole(0))

\* The last item of the phase was ticked with the estimate available; and an
\* item before the last.
C23_Witness ==
    /\ Ticked /\ out.arg[2] = out.arg[3]
    /\ eta.samples >= eta.min_samples
    /\ Positive(eta.ema_duration)
    /\ RemainingSeconds(eta) # None /\ FracEq(RemainingSeconds(eta)[1], Whole(0))

C23_WitnessPositive ==
    /\ Ticked /\ out.arg[2] < out.arg[3]
    /\ eta.samples = 2
    /\ RemainingSeconds(eta) # None /\ Positive(RemainingSeconds(eta)[1])

\* The smoothing state is clear after the step, which has added no sample.
Cleared ==
    /\ eta'.samples = 0
    /\ FracEq(eta'.ema_duration, Whole(0))
    /\ RemainingSeconds(eta') = None

C24_WitnessSameKey ==
    /\ Ticked /\ out.arg[1] = << "Checking", "B" >>
    /\ eta.samples = 2

\* The text of the state of e: nothing, the calculating phrase, the almost-done
\* phrase or the formatted estimate.
TextOfState(e) ==
    IF e.samples = 0 /\ e.remaining = None THEN EmptyText
    ELSE IF e.remaining = None THEN CalculatingText
    ELSE IF FracLess(e.remaining[1], Whole(1)) THEN AlmostDoneText
    ELSE FormatSeconds(e.remaining[1])

\* A text is displayed and the call comes less than min_update_interval after it.
InWindow ==
    /\ eta.last_display_text # EmptyText
    /\ mono' - eta.last_display_time < eta.min_update_interval

\* C25 as stated: a format_remaining call made less than min_update_interval
\* after another returns the text that one returned; a render that is the first
\* or comes min_update_interval or more after the last displayed one returns
\* the text of the current state.
C25_WindowIdentical ==
    [][ Calls("format_remaining") =>
            /\ (rendered # None /\ mono' - rendered[1].time < eta.min_update_interval)
                   => out'.value = rendered[1].text
            /\ ~InWindow => out'.value = TextOfState(eta) ]_vars

\* C25 (amended): a format_remaining call made less than min_update_interval
\* after the call that last displayed a new text returns that text whatever
\* the estimate has become, unless the current phase has no sample (it then
\* returns ""); a render that is the first or comes min_update_interval or more
\* after the last displayed one returns the text of the current state.
C25_WindowHeld ==
    [][ Calls("format_remaining") =>
            /\ (InWindow /\ eta.samples > 0) => out'.value = eta.last_display_text
            /\ (InWindow /\ eta.samples = 0) => out'.value = EmptyText
            /\ ~InWindow => out'.value = TextOfState(eta) ]_vars

\* A text is held although the state has another text; and the render after
\* the interval has shown the new one.
C25_Witness ==
    /\ out.op = "format_remaining"
    /\ out.value = eta.last_display_text
    /\ out.value # TextOfState(eta)
    /\ mono - eta.last_display_time < eta.min_update_interval

C25_WitnessAfter ==
    /\ out.op = "format_remaining"
    /\ eta.last_display_time = mono /\ mono >= eta.min_update_interval
    /\ out.value = AlmostDoneText

\* C27 as stated: format_remaining returns "" with no sample, the calculating
\* phrase with a sample but no estimate, the almost-done phrase with an
\* estimate under one second, the formatted estimate otherwise; after reset()
\* it returns "".
C27_RenderStates ==
    [][ Calls("format_remaining") =>
            /\ eta.samples = 0 => out'.value = EmptyText
            /\ (eta.samples > 0 /\ RemainingSeconds(eta) = None)
                   => out'.value = CalculatingText
            /\ (RemainingSeconds(eta) # None /\ FracLess(RemainingSeconds(eta)[1], Whole(1)))
                   => out'.value = AlmostDoneText
            /\ (RemainingSeconds(eta) # None /\ ~FracLess(RemainingSeconds(eta)[1], Whole(1)))
                   => out'.value = FormatSeconds(RemainingSeconds(eta)[1])
            /\ out.op = "reset" => out'.value = EmptyText ]_vars

\* C27 (amended): format_remaining returns "" with no sample; when no displayed
\* text is held by the flicker window, it returns the calculating phrase with
\* a sample but no estimate, the almost-done phrase with an estimate under one
\* second, the formatted estimate otherwise; after reset() it returns "".
C27_RenderStatesUnheld ==
    [][ Calls("format_remaining") =>
            /\ eta.samples = 0 => out'.value = EmptyText
            /\ (~InWindow /\ eta.samples > 0 /\ RemainingSeconds(eta) = None)
                   => out'.value = CalculatingText
            /\ (~InWindow /\ RemainingSeconds(eta) # None
                    /\ FracLess(RemainingSeconds(eta)[1], Whole(1)))
                   => out'.value = AlmostDoneText
            /\ (~InWindow /\ RemainingSeconds(eta) # None
                    /\ ~FracLess(RemainingSeconds(eta)[1], Whole(1)))
                   => out'.value = FormatSeconds(RemainingSeconds(eta)[1])
            /\ out.op = "reset" => out'.value = EmptyText ]_vars

\* Each text has been rendered; and nothing after a reset that followed a text.
C27_Witness ==
    /\ out.op = "format_remaining" /\ out.value = AlmostDoneText
    /\ eta.last_display_time = mono
    /\ RemainingSeconds(eta) # None /\ FracEq(RemainingSeconds(eta)[1], Whole(0))

C27_WitnessCalculating ==
    /\ out.op = "format_remaining" /\ out.value = CalculatingText
    /\ eta.samples = 1 /\ eta.min_samples = 2

C27_WitnessEstimate ==
    /\ out.op = "format_remaining" /\ out.value = Remaining1(2, "s")

C27_WitnessAfterReset ==
    /\ out.op = "format_remaining" /\ out.value = EmptyText
    /\ eta.samples = 0
    /\ rendered # None /\ mono > 0

C28_WitnessNext ==
    /\ Ticked /\ eta.samples = 2 /\ mono >= 30
    /\ FracEq(eta.ema_duration, Whole(1))

\* ------------------------------------------ claims on directories and keys
\* Directory d holds something: a file, or (a namespace directory) a category
\* directory.
Occupied(d) ==
    \/ \E f \in FileNames : Exists(f) /\ (<< f[1] >> = d \/ << f[1], f[2] >> = d)
    \/ \E c \in dirs : Len(c) = 2 /\ << c[1] >> = d

\* C29: after clear or cleanup_expired has returned, no directory beneath the
\* cache root is empty, and every directory above a file is there.
C29_NoEmptyDirs ==
    ((After("clear") \/ After("cleanup_expired")) /\ ret.raised = "none") =>
        /\ \A d \in dirs \ {RootDir} : Occupied(d)
        /\ \A f \in FileNames : Exists(f) => ParentDirs(f) \subseteq dirs

\* clear("tmdb") has removed the namespace directory it emptied and has kept
\* the one of the other namespace; and a sweep has removed the directories of
\* the expired entry it deleted.
C29_Witness ==
    /\ After("clear") /\ ret.key[1] = "tmdb" /\ ret.count > 0
    /\ << "tmdb" >> \notin dirs
    /\ << "tvdb", "episodes" >> \in dirs

C29_WitnessSweep ==
    /\ After("cleanup_expired") /\ ret.raised = "none" /\ ret.count > 0
    /\ << "tmdb" >> \notin dirs
    /\ << "tvdb", "episodes" >> \in dirs

\* The entry stored under triple j: the content of its file.
EntryOf(j) == fs[<< j[1], j[2], j[3], "json" >>]

\* C30: a get, set or delete on one triple, a failed set and a get that deletes
\* an expired or damaged entry included, leaves the entry of every other
\* triple as it was.
C30_LocalToKey ==
    [][ \A k \in AllTriples :
            (Called("get", k) \/ Called("set", k) \/ Called("delete", k)) =>
                \A j \in AllTriples \ {k} : EntryOf(j)' = EntryOf(j) ]_vars

\* A set of one key has failed, a get of it has deleted a damaged file, beside
\* the entry of the other key of the category.
C30_Witness ==
    /\ After("set") /\ ret.key = Sibling /\ ret.raised = "OSError"
    /\ EntryOf(KeyA).json = "obj" /\ stored[KeyA].has

C30_WitnessLazyDelete ==
    /\ After("get") /\ ret.key = Sibling /\ ret.value = None
    /\ EntryOf(Sibling) = NoFile /\ << "tmdb", "movies" >> \in dirs
    /\ EntryOf(KeyA).json = "obj" /\ clock > EntryOf(KeyA).expires_at

\* ------------------------------------------ claims on the smoothing and keys
\* The tick of the step stays in the phase of the tick before it and comes
\* less than 30 seconds after it.
ValidDelta ==
    /\ eta.last_time # None
    /\ << Head(out'.arg[1]) >> = eta.last_phase_key
    /\ out'.arg[3] = eta.last_total
    /\ mono' - eta.last_time[1] < 30

\* C31: within a phase the first valid delta becomes the smoothed duration,
\* each later valid delta dt makes it 0.15 * dt + 0.85 * previous, and with
\* min_samples samples and total > 0 remaining_seconds is the smoothed duration
\* times (total - current) of the tick.
C31_EmaRule ==
    [][ Calls("update") =>
            LET dt == mono' - eta.last_time[1]
                e == eta'.ema_duration
            IN  /\ (ValidDelta /\ eta.samples = 0) => FracEq(e, Whole(dt))
                /\ (ValidDelta /\ eta.samples > 0) =>
                       e.n * 20 * eta.ema_duration.d
                           = (3 * dt * eta.ema_duration.d + 17 * eta.ema_duration.n) * e.d
                /\ (eta'.samples >= eta'.min_samples /\ out'.arg[3] > 0) =>
                       /\ RemainingSeconds(eta') # None
                       /\ RemainingSeconds(eta')[1].n * e.d
                              = e.n * (out'.arg[3] - out'.arg[2]) * RemainingSeconds(eta')[1].d ]_vars

\* Deltas of 2 s and then 1 s have given 0.15 * 1 + 0.85 * 2 = 1.85 s an item,
\* and one item is left.
C31_Witness ==
    /\ Ticked /\ eta.samples = 2
    /\ FracEq(eta.ema_duration, Frac(37, 20))
    /\ out.arg[2] = 1 /\ out.arg[3] = 2
    /\ RemainingSeconds(eta) # None /\ FracEq(RemainingSeconds(eta)[1], Frac(37, 20))

\* C32: the phase of a tick is the part of its label before the first ": ",
\* or the whole label; a tick that follows a tick of the same phase and total
\* does not reset the smoothing state: the sample count does not go down and
\* the smoothed duration is not cleared.
C32_PhaseIdentity ==
    [][ Calls("update") =>
            /\ eta'.last_phase_key = << Head(out'.arg[1]) >>
            /\ (Ticked /\ Head(out'.arg[1]) = Head(out.arg[1]) /\ out'.arg[3] = out.arg[3]) =>
                   /\ eta'.samples >= eta.samples
                   /\ eta'.samples = eta.samples => eta'.ema_duration = eta.ema_duration
                   /\ eta.samples > 0 => eta'.samples > 0 ]_vars

\* "Checking: B" has followed "Checking: A" and added the second sample; and
\* so has "Checking" after "Checking: A: B".
C32_Witness ==
    /\ Ticked /\ out.arg[1] = << "Checking", "B" >>
    /\ eta.samples = 2
    /\ eta.last_phase_key = << "Checking" >>

C32_WitnessNoSeparator ==
    /\ Ticked /\ out.arg[1] = << "Checking" >>
    /\ eta.samples = 2

\* C33: a tick whose total is unknown (None or 0) is accepted however many
\* came before it: update does not fail, and remaining_seconds is None.
C33_UnknownTotalAccepted ==
    (Ticked /\ out.arg[3] \in UnknownTotals) =>
        /\ out.value = None
        /\ RemainingSeconds(eta) = None

\* ------------------------------------------------ claims on the units shown
\* secs rounded to a multiple of 10, a half-way value going up.
HalfUp10(secs) == IF secs % 10 >= 5 THEN (secs \div 10 + 1) * 10 ELSE (secs \div 10) * 10

\* C34: for a whole number of seconds 60 <= s < 3600 the seconds part is
\* rounded to the nearest 10 s, a part ending in 5 going up to the next
\* multiple of 10: the minutes and seconds shown add up to the whole minutes
\* of s plus its seconds part so rounded.
C34_HalfWayUp ==
    out.op = "_format_seconds" =>
        LET t == out.arg[1]
            s == t \div 10
        IN  (t % 10 = 0 /\ 60 <= s /\ s < 3600) =>
                /\ out.value.unit = "m"
                /\ out.value.unit2 \in {"", "s"}
                /\ out.value.a * 60 + out.value.b = (s \div 60) * 60 + HalfUp10(s % 60)

\* C35: for every s >= 0 the text shows no seconds term of 60 or more and no
\* minutes term of 60 or more.
C35_UnitCarry ==
    (out.op = "_format_seconds" /\ out.arg[1] >= 0) =>
        /\ out.value.unit \in {"s", "m"} => out.value.a < 60
        /\ out.value.unit2 \in {"s", "m"} => out.value.b < 60

\* ------------------------------------------------ claims on the data models
\* The ids of the parts of ps the test keeps, in the order of ps.
Kept(ps, Test(_)) == IdsOf(SelectSeq(ps, Test))

\* C36 as stated: released_movies holds, in the order of parts, exactly the
\* parts whose release date is not strictly in the future; no part is dropped
\* for another reason.
C36_OnlyFutureDropped ==
    out.op = "released_movies" =>
        IdsOf(out.value) =
            Kept(out.arg[1], LAMBDA m : ~(m.release_date # None /\ m.release_date[1] > Today))

\* C36 (amended): released_movies holds, in the order of parts, exactly the
\* parts that have a release date and whose release date is not strictly in
\* the future (a part dated today is included); a part without a release date
\* is dropped as a part dated in the future is, and no other part is dropped.
C36_DatedNotFuture ==
    out.op = "released_movies" =>
        LET ps == out.arg[1]
            v == out.value
        IN  /\ \A i \in DOMAIN ps :
                   (\E j \in DOMAIN v : v[j] = ps[i]) <=>
                       (ps[i].release_date \in { Some(Today - 1), Some(Today) })
            /\ \A j, k \in DOMAIN v : j < k => v[j].id < v[k].id

\* A part without a date and one of tomorrow were dropped between parts of
\* today and yesterday.
C36_Witness ==
    /\ out.op = "released_movies"
    /\ Len(out.arg[1]) = 3
    /\ out.arg[1][1].release_date = Some(Today)
    /\ out.arg[1][2].release_date = None
    /\ out.arg[1][3].release_date = Some(Today - 1)
    /\ IdsOf(out.value) = << 1, 3 >>

\* C37: complete_collections of a report is the number of collections found
\* in the library that have no missing movie after filtering; it is
\* unique_collections minus the number of records with gaps, and not negative.
C37_CompleteCount ==
    Reported =>
        /\ CompleteCollections(report[1]) =
               Cardinality({ c \in GroupsFound : Unowned(c) = << >> })
        /\ CompleteCollections(report[1]) = report[1].unique_collections - Len(Gaps)
        /\ CompleteCollections(report[1]) >= 0

\* -------------------------------------------------------- claims on the retry
\* A decorated function was called and the wrapper has ended.
Retried == out.op = "retry"
\* The events of the wrapper, and the numbers of the calls of the function.
TraceOf == out.value.trace
CallsMade == { i \in DOMAIN TraceOf : TraceOf[i].ev = "call" }
\* The calls, from the first, that raise an exception listed in retry_on
\* until one does not: the call after them is the one that decides.
FirstUnlisted(o) ==
    { j \in DOMAIN o : o[j].kind # "listed" /\ \A i \in 1..(j - 1) : o[i].kind = "listed" }

\* C38: the function is called at most max_retries + 1 times; the wrapper
\* returns the result of the first call that succeeds and calls no more; when
\* every one of the max_retries + 1 calls raises a listed exception it raises
\* the last one; an exception that is not listed is raised at once; and there
\* is exactly one sleep between two calls in a row and none after the last.
C38_RetryBound ==
    Retried =>
        LET p == out.arg[1]
            o == out.arg[2]
            r == out.value
        IN  /\ Cardinality(CallsMade) <= p.max_retries + 1
            /\ Len(r.trace) = 2 * Cardinality(CallsMade) - 1
            /\ \A i \in DOMAIN r.trace :
                   IF i % 2 = 1
                   THEN r.trace[i].ev = "call" /\ r.trace[i].n = (i - 1) \div 2
                   ELSE r.trace[i].ev = "sleep"
            /\ \A j \in FirstUnlisted(o) :
                   /\ Cardinality(CallsMade) = j
                   /\ r.attempt = j - 1
                   /\ r.how = IF o[j].kind = "returns" THEN "returned" ELSE "raised"
            /\ FirstUnlisted(o) = {} =>
                   /\ Cardinality(CallsMade) = p.max_retries + 1
                   /\ r.how = "raised"
                   /\ r.attempt = p.max_retries

\* Decorated with max_retries 2, every call raised a listed exception: three
\* calls with two sleeps between them, and the third exception was raised.
C38_Witness ==
    /\ Retried
    /\ out.arg[1].max_retries = 2
    /\ \A j \in DOMAIN out.arg[2] : out.arg[2][j].kind = "listed"
    /\ Len(TraceOf) = 5
    /\ out.value.how = "raised" /\ out.value.attempt = 2

\* The second call returned after a listed exception: its result came back
\* and the third call was never made.
C38_WitnessReturned ==
    /\ Retried
    /\ out.arg[1].max_retries = 2
    /\ out.arg[2][1].kind = "listed" /\ out.arg[2][2].kind = "returns"
    /\ Cardinality(CallsMade) = 2
    /\ out.value.how = "returned" /\ out.value.attempt = 1

\* The delays slept, in their order.
DelaysSlept == SelectSeq(TraceOf, LAMBDA x : x.ev = "sleep")

\* C39: the delay slept after failed attempt k is base_delay * exponential_base^k
\* capped at max_delay, and no delay slept is longer than max_delay, whatever
\* the exceptions raised, those with a retry_after hint included.
C39_DelayCapped ==
    Retried =>
        LET p == out.arg[1]
        IN  \A k \in DOMAIN DelaysSlept :
                /\ DelaysSlept[k].n =
                       Min(p.base_delay * Pow(p.exponential_base, k - 1), p.max_delay)
                /\ DelaysSlept[k].n <= p.max_delay

\* ------------------------------------------------ claims on the connections
\* C40: all_ok is true exactly when every configured service connected: a
\* service that is not configured, and so never tested, does not make it
\* false, and a configured service whose connection failed always does.
C40_AllConfiguredOk ==
    out.op = "test_connections" =>
        LET cfg == out.arg[1]
            o == out.arg[2]
        IN  out.value.all_ok <=>
                /\ (cfg.plex_url /\ cfg.plex_token) => o.plex # "error"
                /\ cfg.tmdb_api_key => o.tmdb # "error"
                /\ cfg.tvdb_api_key => o.tvdb # "error"

====
